---- MODULE Spec2Model ----
(***************************************************************************)
(* Verification model of the dsagent-vscode streaming client.              *)
(*                                                                         *)
(*  - DSAgentClient (api/client.ts, SSE version): one HTTP request per     *)
(*    sendMessage, frame decoding in res.on('data'), handleSSEEvent,       *)
(*    disconnect, and the HITL calls approveAction / rejectAction /        *)
(*    respondAction.                                                       *)
(*  - DSAgentChatParticipant.handleRequest: the wait for 'complete' /      *)
(*    'error' / cancellation, and the approve / reject commands.           *)
(*  - ChatPanelProvider: client listeners that post to the webview, and    *)
(*    the onDidReceiveMessage switch.                                      *)
(*  - App (webview): the HITL part of handleMessage and sendHitlRespond.   *)
(*                                                                         *)
(* The specifications share the variables:                                 *)
(*   Spec         the client's streams and the chat participant            *)
(*   SpecDecoder  the frame decoder of res.on('data') on byte chunks       *)
(*   SpecHitl     the HITL cycle: client, chat panel and webview           *)
(*   SpecSession  a HITL request on display while the session is           *)
(*                disconnected or replaced                                 *)
(***************************************************************************)
EXTENDS Integers, Sequences, FiniteSets, TLC

(***************************************************************************)
(* Frame decoder (sendMessage, res.on('data')).  Text is a sequence of     *)
(* one-character strings.  The wire carries bytes: an ASCII byte is        *)
(* written as its character, and the two bytes of U+00E9 in UTF-8 are the  *)
(* tokens "0xC3" and "0xA9".                                               *)
(***************************************************************************)
LeadByte == "0xC3"

ContByte == "0xA9"

Replacement == "U+FFFD"

EAcute == "U+00E9"

\* chunk.toString() (Buffer.toString): UTF-8 decoding of ONE chunk.  A lead byte followed by
\* its continuation byte is one character; a lead byte cut off by the end of
\* the chunk and a continuation byte with no lead byte are each replaced by
\* U+FFFD.
RECURSIVE ChunkToString(_)
ChunkToString(chunk) ==
    IF chunk = <<>> THEN <<>>
    ELSE IF Head(chunk) = LeadByte
         THEN IF Len(chunk) >= 2 /\ chunk[2] = ContByte
              THEN <<EAcute>> \o ChunkToString(SubSeq(chunk, 3, Len(chunk)))
              ELSE <<Replacement>> \o ChunkToString(Tail(chunk))
         ELSE IF Head(chunk) = ContByte
              THEN <<Replacement>> \o ChunkToString(Tail(chunk))
              ELSE <<Head(chunk)>> \o ChunkToString(Tail(chunk))

\* String.prototype.split('\n'): the pieces between line feeds; always at
\* least one piece, the last one being the text after the last line feed.
RECURSIVE SplitLines(_, _)
SplitLines(text, cur) ==
    IF text = <<>> THEN <<cur>>
    ELSE IF Head(text) = "\n"
         THEN <<cur>> \o SplitLines(Tail(text), <<>>)
         ELSE SplitLines(Tail(text), Append(cur, Head(text)))

StartsWith(s, p) == Len(s) >= Len(p) /\ SubSeq(s, 1, Len(p)) = p

Slice(s, n) == SubSeq(s, n + 1, Len(s))

WhiteSpace == {" ", "\r", "\t", "\n"}

RECURSIVE TrimStart(_)
TrimStart(s) ==
    IF s # <<>> /\ Head(s) \in WhiteSpace THEN TrimStart(Tail(s)) ELSE s

RECURSIVE TrimEnd(_)
TrimEnd(s) ==
    IF s # <<>> /\ s[Len(s)] \in WhiteSpace
    THEN TrimEnd(SubSeq(s, 1, Len(s) - 1)) ELSE s

Trim(s) == TrimEnd(TrimStart(s))

EventMarker == <<"e", "v", "e", "n", "t", ":", " ">>

DataMarker == <<"d", "a", "t", "a", ":", " ">>

\* JSON.parse restricted to the texts the modelled streams can produce: the
\* empty object, or an object with one member whose name and value are
\* strings.  Surrounding white space is allowed; any other text throws.
IsJsonString(s) ==
    /\ Len(s) >= 2
    /\ s[1] = "\"" /\ s[Len(s)] = "\""
    /\ \A i \in 2..(Len(s) - 1) : s[i] \notin {"\"", "\\", "\n", "\r", "\t"}

JsonStringValue(s) == SubSeq(s, 2, Len(s) - 1)

JsonMemberSplits(inner) ==
    {i \in 1..Len(inner) :
        /\ inner[i] = ":"
        /\ IsJsonString(SubSeq(inner, 1, i - 1))
        /\ IsJsonString(SubSeq(inner, i + 1, Len(inner)))}

\* A parser that accepts any text that opens an object.
JsonParseLenient(text) ==
    LET t == Trim(text)
    IN  [ok |-> t # <<>> /\ t[1] = "{", value |-> <<>>]

JsonParse(text) ==
    LET t == Trim(text)
        inner == SubSeq(t, 2, Len(t) - 1)
    IN  IF Len(t) >= 2 /\ t[1] = "{" /\ t[Len(t)] = "}"
        THEN IF inner = <<>>
             THEN [ok |-> TRUE, value |-> <<>>]
             ELSE IF JsonMemberSplits(inner) # {}
                  THEN LET i == CHOOSE j \in JsonMemberSplits(inner) : TRUE
                       IN  [ok |-> TRUE,
                            value |-> <<JsonStringValue(SubSeq(inner, 1, i - 1)),
                                        JsonStringValue(SubSeq(inner, i + 1, Len(inner)))>>]
                  ELSE [ok |-> FALSE, value |-> <<>>]
        ELSE [ok |-> FALSE, value |-> <<>>]

DoneType == <<"d", "o", "n", "e">>

\* One iteration of `for (const line of lines)`.  d is the decoder state
\* [cet: currentEventType, done: receivedDone, out: the calls made to
\* handleSSEEvent, in order].
\* An iteration that merges a frame into the preceding frame of the same
\* type.
ProcessLineCoalesce(d, line) ==
    IF StartsWith(line, EventMarker)
    THEN [d EXCEPT !.cet = Trim(Slice(line, 7))]
    ELSE IF StartsWith(line, DataMarker)
         THEN LET dataStr == Slice(line, 6)
                  parsed == JsonParse(dataStr)
                  frame == [type |-> d.cet, data |-> parsed.value]
              IN  IF dataStr # <<>> /\ parsed.ok
                  THEN IF d.out # <<>> /\ d.out[Len(d.out)].type = d.cet
                       THEN [d EXCEPT !.out = [@ EXCEPT ![Len(d.out)] = frame]]
                       ELSE [d EXCEPT !.done = (d.done \/ d.cet = DoneType),
                                      !.out = Append(d.out, frame)]
                  ELSE d
         ELSE d

ProcessLine(d, line) ==
    IF StartsWith(line, EventMarker)
    THEN [d EXCEPT !.cet = Trim(Slice(line, 7))]
    ELSE IF StartsWith(line, DataMarker)
         THEN LET dataStr == Slice(line, 6)
                  parsed == JsonParse(dataStr)
              IN  IF dataStr # <<>> /\ parsed.ok
                  THEN [d EXCEPT !.done = (d.done \/ d.cet = DoneType),
                                 !.out = Append(d.out, [type |-> d.cet, data |-> parsed.value])]
                  ELSE d
         ELSE d

RECURSIVE ProcessLines(_, _)
ProcessLines(d, lines) ==
    IF lines = <<>> THEN d
    ELSE ProcessLines(ProcessLine(d, Head(lines)), Tail(lines))

\* The whole res.on('data') callback: d.buf is the carry-over buffer.
OnData(d, chunk) ==
    LET text == d.buf \o ChunkToString(chunk)
        lines == SplitLines(text, <<>>)
        complete == SubSeq(lines, 1, Len(lines) - 1)
        d1 == ProcessLines(d, complete)
    IN  [d1 EXCEPT !.buf = lines[Len(lines)]]

\* ended: res.on('end') has run.
DecoderStart == [buf |-> <<>>, cet |-> <<>>, done |-> FALSE, out |-> <<>>,
                 ended |-> FALSE]

\* An end handler that decodes what is left in the buffer as a last line.
OnEndFlush(d) ==
    [ProcessLine(d, d.buf) EXCEPT !.buf = <<>>, !.ended = TRUE]

\* res.on('end') as far as decoding goes: the buffer is not looked at.
OnEnd(d) == [d EXCEPT !.ended = TRUE]

\* The frames of a stream delivered in a single chunk.
UnsplitFrames(w) == OnData(DecoderStart, w).out

(***************************************************************************)
(* Valid frame streams used as decoder inputs: `event: <type>` followed by *)
(* `data: <json>` and a blank line.                                        *)
(***************************************************************************)
NL == <<"\n">>

WireFrame(type, json) == EventMarker \o type \o NL \o DataMarker \o json \o NL \o NL

PlanType == <<"p", "l", "a", "n">>

ErrorType == <<"e", "r", "r", "o", "r">>

JsonEmpty == <<"{", "}">>

JsonAscii == <<"{", "\"", "k", "\"", ":", "\"", "v", "\"", "}">>

JsonAccent == <<"{", "\"", "k", "\"", ":", "\"", LeadByte, ContByte, "\"", "}">>

WireStreams ==
    { WireFrame(PlanType, JsonAscii) \o WireFrame(DoneType, JsonEmpty),
      WireFrame(ErrorType, JsonAscii),
      WireFrame(PlanType, JsonAccent) \o WireFrame(DoneType, JsonEmpty),
      DataMarker \o JsonAscii \o NL \o <<"\r", "\n">> \o WireFrame(DoneType, JsonEmpty) }

\* A payload that is cut short: JSON.parse throws.
JsonBroken == <<"{">>

\* A stream whose first data line cannot be parsed: a plan frame with the
\* data lines `{` and `{}`, then a done frame.
DroppedStream ==
    EventMarker \o PlanType \o NL \o DataMarker \o JsonBroken \o NL
        \o DataMarker \o JsonEmpty \o NL \o NL \o WireFrame(DoneType, JsonEmpty)

\* A stream with two equal frames in a row.
RepeatStream == WireFrame(PlanType, JsonEmpty) \o WireFrame(PlanType, JsonEmpty)

DecoderStreams == WireStreams \cup {DroppedStream, RepeatStream}

(***************************************************************************)
(* State.                                                                  *)
(*   DSAgentClient: currentSession, activeRequest, and one record per      *)
(*   request created by sendMessage (the closure of its callbacks).        *)
(*   DSAgentChatParticipant: the wait of each handleRequest, indexed by    *)
(*   the request its sendMessage created.                                  *)
(*   Frame decoder run: wire (the bytes the server sends), pos (how many   *)
(*   have been delivered), decoder (buffer, currentEventType,              *)
(*   receivedDone and the frames handed to handleSSEEvent).                *)
(*   ChatPanelProvider: panelOpen (_panel is defined), toWebview (the      *)
(*   messages posted to the webview and not yet handled by App), toHost    *)
(*   (the messages App posted and onDidReceiveMessage has not yet seen),   *)
(*   currentPlan.  The fields messages, isThinking and serverAvailable     *)
(*   feed only syncState and are left out.                                 *)
(*   App: hitlRequest, hitlFeedback, and in the record app: messages,      *)
(*   isStreaming, currentPlan and the refs currentAssistantId,             *)
(*   lastCodeMessageId, hasAddedCode.                                      *)
(*   WebSocketHandler: options, the sockets it has created and that are    *)
(*   not yet closed (sockets), ws (the socket this.ws refers to),          *)
(*   reconnectAttempts, reconnectTimeout (the handle of the latest         *)
(*   reconnect timer), timers (the reconnect timers that are pending),     *)
(*   intentionalClose; reconnecting (the arguments of the latest           *)
(*   'reconnecting' event), lastEvent (the latest of 'reconnecting' /      *)
(*   'reconnectFailed' since the caller's last connect()), autoAttempts    *)
(*   (the connect() calls made by reconnect timers since the last open).   *)
(*   lastCall: the latest HITL call the client sent to the server;         *)
(*   nCalls: how many HITL calls were sent; nResponds: how many times      *)
(*   sendHitlRespond ran.                                                  *)
(***************************************************************************)
VARIABLES currentSession, activeRequest, nReq, nFrames, req, wait,
          wire, pos, decoder,
          panelOpen, toWebview, toHost, hitlRequest, hitlFeedback,
          lastCall, nCalls, nResponds,
          currentPlan, app,
          options, sockets, ws, reconnectAttempts, reconnectTimeout, timers,
          intentionalClose, reconnecting, lastEvent, autoAttempts,
          nb

clientVars == <<currentSession, activeRequest, nReq, nFrames, req, wait>>

decVars == <<wire, pos, decoder>>

\* Everything of the panel and the webview except the queue toWebview.
hostVars == <<panelOpen, toHost, hitlRequest, hitlFeedback, lastCall, nCalls,
              nResponds>>

vars == <<currentSession, activeRequest, nReq, nFrames, req, wait,
          wire, pos, decoder,
          panelOpen, toWebview, toHost, hitlRequest, hitlFeedback,
          lastCall, nCalls, nResponds,
          currentPlan, app,
          options, sockets, ws, reconnectAttempts, reconnectTimeout, timers,
          intentionalClose, reconnecting, lastEvent, autoAttempts,
          nb>>

\* The state of the WebSocketHandler.
wsVars == <<options, sockets, ws, reconnectAttempts, reconnectTimeout, timers,
            intentionalClose, reconnecting, lastEvent, autoAttempts>>

\* Bounds of the model: requests created (nReq), frames handed to
\* handleSSEEvent (nFrames), messages posted to the webview and not yet
\* handled, HITL calls sent to the server (nCalls).
MaxStreams == 3

MaxFrames == 2

MaxQueue == 2

MaxCalls == 1

NoSession == "none"

NoRequest == 0

Streams == 1..MaxStreams

\* Session ids the server hands out.
Sessions == {"session-1", "session-2"}

\* States of a request.  Open: "sent" (written, no response yet), "body"
\* (status < 400, body streaming), "errbody" (status >= 400, body being
\* collected).  Destroyed with a callback still to run: "hangup" (destroyed
\* before the response: req 'error' with 'socket hang up'), "aborting"
\* (destroyed while the body streams: res 'error' with 'aborted').  Closed:
\* "ended" (res 'end', status < 400), "rejected" (res 'end', status >= 400),
\* "errored" (an error handler emitted 'error'), "hungup" (req 'error' with
\* 'socket hang up', resolved silently), "dropped" (destroyed while the error
\* body was read: that response has no 'error' listener and 'end' never
\* comes).
OpenStates == {"sent", "body", "errbody"}

ClosedStates == {"ended", "rejected", "errored", "hungup", "dropped"}

\* emitted: the terminal events ('complete', 'error') the request's callbacks
\* have emitted, in order.  cancel / cancelAt: who destroyed the request and
\* how many terminal events it had emitted by then.  statusCode: the status
\* of the response (0: none yet).  body: the chunks collected from a
\* response with status >= 400.  session: the session id in the URL
\* `/api/sessions/${id}/chat/stream` of a request that is open (a request that
\* was destroyed or has ended delivers no frame, and its URL is forgotten).
Unused == [st |-> "unused", receivedDone |-> FALSE,
           promise |-> "none", emitted |-> <<>>,
           cancel |-> "none", cancelAt |-> 0,
           statusCode |-> 0, body |-> <<>>, session |-> NoSession]

IsOpen(s) == req[s].st \in OpenStates

IsClosed(s) == req[s].st \in ClosedStates

DecoderIdle == /\ wire = <<>> /\ pos = 0 /\ decoder = DecoderStart

\* useState<HITLRequestData | null>(null): no request is shown.
NoHitl == [awaitingType |-> "none", plan |-> "", code |-> "", error |-> "",
           answer |-> "", message |-> ""]

\* `currentPlan: PlanState | null = null`: no plan.  A PlanState built by
\* the client always has a progress of the form "c/t".
NoPlan == [steps |-> <<>>, raw_text |-> "", progress |-> "", total_steps |-> 0]

\* The refs of App hold a message id or null.
NoId == <<>>

\* App as it mounts: the initial values of useState / useRef.  now is the
\* value Date.now() returns, in milliseconds since App was mounted or the
\* chat was cleared.
AppStart == [messages |-> <<>>, isStreaming |-> FALSE, currentPlan |-> NoPlan,
             currentAssistantId |-> NoId, lastCodeMessageId |-> NoId,
             hasAddedCode |-> FALSE, now |-> 0]

\* No HITL call has been sent.
NoCall == [endpoint |-> "none", session |-> NoSession, action |-> "",
           message |-> "", modified_plan |-> ""]

\* No panel has been created, App is not mounted, nothing was sent.
PanelIdle ==
    /\ panelOpen = FALSE
    /\ toWebview = <<>>
    /\ toHost = <<>>
    /\ hitlRequest = NoHitl
    /\ hitlFeedback = ""
    /\ lastCall = NoCall
    /\ nCalls = 0
    /\ nResponds = 0
    /\ currentPlan = NoPlan
    /\ app = AppStart

\* No WebSocketHandler has been constructed.
NoOptions == [reconnect |-> FALSE, maxReconnectAttempts |-> 0, reconnectInterval |-> 0]

\* The NotebookSyncService as constructed: no notebook is open, no cell is
\* pending, nothing is in progress and no event has arrived.
NbIdle == [open |-> FALSE, cells |-> <<>>, pendingCellIndex |-> -1,
           ops |-> <<>>, sent |-> 0]

WsIdle ==
    /\ options = NoOptions
    /\ sockets = <<>>
    /\ ws = 0
    /\ reconnectAttempts = 0
    /\ reconnectTimeout = 0
    /\ timers = {}
    /\ intentionalClose = FALSE
    /\ reconnecting = <<0, 0>>
    /\ lastEvent = "none"
    /\ autoAttempts = 0

Init ==
    /\ currentSession = NoSession
    /\ activeRequest = NoRequest
    /\ nReq = 0
    /\ nFrames = 0
    /\ req = [s \in Streams |-> Unused]
    /\ wait = [s \in Streams |-> "none"]
    /\ DecoderIdle
    /\ PanelIdle
    /\ WsIdle
    /\ nb = NbIdle

(***************************************************************************)
(* Events and observers.                                                   *)
(***************************************************************************)
\* A number member that is missing from a payload.
Undefined == -1

\* `x || 0` for a number or undefined.
OrZero(x) == IF x = Undefined THEN 0 ELSE x

\* `x || dflt` for a string; "" stands for undefined as well.
OrText(x, dflt) == IF x = "" THEN dflt ELSE x

\* case 'plan' of handleSSEEvent: the PlanState built from the payload.
\* steps is a sequence (<<>> also for a missing member); progress is the
\* template string `${completed_steps || 0}/${total_steps || 0}`.
PlanState(data) ==
    [steps |-> data.steps,
     raw_text |-> data.raw_text,
     progress |-> ToString(OrZero(data.completed_steps))
                    \o "/" \o ToString(OrZero(data.total_steps)),
     total_steps |-> OrZero(data.total_steps)]

\* handleSSEEvent(eventType, data): the domain events it emits, in order.
\* (The generic 'event' emitted last has no subscriber.)
\* A client that emits 'answer' whenever has_answer is set.
RoundCompleteUnchecked(data) ==
    IF data.has_answer
    THEN <<[type |-> "answer", content |-> data.answer]>> ELSE <<>>

\* case 'round_complete': `if (data.has_answer && data.answer)`; FALSE and ""
\* also stand for a member that is missing.
RoundComplete(data) ==
    IF data.has_answer /\ data.answer # ""
    THEN <<[type |-> "answer", content |-> data.answer]>> ELSE <<>>

HandleSSEEvent(eventType, data) ==
    CASE eventType = "thinking" ->
            <<[type |-> "thinking", content |-> OrText(data.message, "Processing...")]>>
      [] eventType = "llm_response" ->
            <<[type |-> "llm_response", content |-> data.content]>>
      [] eventType = "plan" -> <<[type |-> "plan", plan |-> PlanState(data)]>>
      [] eventType = "code_executing" -> <<[type |-> "code_executing", code |-> data.code]>>
      [] eventType = "code_result" ->
            <<[type |-> "code_result",
               result |-> [success |-> data.success, output |-> data.stdout,
                           error |-> data.error]]>>
      [] eventType = "round_complete" -> RoundComplete(data)
      [] eventType = "done" -> <<[type |-> "complete"]>>
      [] eventType = "error" ->
            <<[type |-> "error", message |-> OrText(data.error, "Unknown error")]>>
      [] eventType = "hitl_request" ->
            <<[type |-> "hitl_request", request_type |-> data.request_type,
               plan |-> data.plan, code |-> data.code, error |-> data.error]>>
      [] OTHER -> <<>>

EventTypes(evs) == [i \in DOMAIN evs |-> evs[i].type]

Terminal == {"complete", "error"}

\* handleRequest's onComplete / onError: every wait that is pending has both
\* listeners registered on the client, so the first 'complete' or 'error'
\* emitted by any request resolves all of them and removes their listeners.
Notify(w, evs) ==
    IF \E i \in DOMAIN evs : evs[i].type \in Terminal
    THEN [s \in Streams |-> IF w[s] = "pending" THEN "resolved" ELSE w[s]]
    ELSE w

\* The request's own record after its callback emitted evs.
Emitted(r, evs) ==
    [r EXCEPT !.emitted = r.emitted \o SelectSeq(EventTypes(evs), LAMBDA t : t \in Terminal)]

\* A message to the webview: type and the members the messages carry, ""
\* standing for a member that is null or missing.  awaitingType, plan (as
\* its raw_text), code, error, answer and message (a text) are those of
\* 'hitlRequest'.  'plan' carries a PlanState in plan, 'userMessage' its
\* ChatMessage in message, 'loadHistory' the history in messages.
Msg(type) == [type |-> type, awaitingType |-> "", plan |-> "", code |-> "",
              error |-> "", answer |-> "", message |-> "", content |-> "",
              result |-> "", messages |-> <<>>]

\* ChatPanelProvider.setupClientListeners: the message each listener posts
\* for the event it receives.  plan is carried as its raw_text.  The client
\* puts neither answer nor message into a 'hitl_request' event.
PanelMessage(ev) ==
    CASE ev.type = "hitl_request" ->
            [Msg("hitlRequest") EXCEPT
                !.awaitingType = IF ev.request_type = "" THEN "plan" ELSE ev.request_type,
                !.plan = ev.plan, !.code = ev.code, !.error = ev.error]
      [] ev.type \in {"thinking", "llm_response", "answer"} ->
            [Msg(ev.type) EXCEPT !.content = ev.content]
      [] ev.type = "plan" -> [Msg("plan") EXCEPT !.plan = ev.plan]
      [] ev.type = "code_executing" -> [Msg("codeExecuting") EXCEPT !.code = ev.code]
      [] ev.type = "code_result" -> [Msg("codeResult") EXCEPT !.result = ev.result]
      [] ev.type = "error" -> [Msg("error") EXCEPT !.message = ev.message]
      [] OTHER -> Msg(ev.type)

\* A listener of 'llm_response' that never posts.
PanelPostsNoResponse(ev) == ev.type # "llm_response"

\* The listener of 'llm_response' posts only when the event has content.
PanelPosts(ev) == ev.type = "llm_response" => ev.content # ""

\* postMessage: `this._panel?.webview.postMessage(message)`, nothing is
\* posted while there is no panel.
RECURSIVE PanelMessages(_)
PanelMessages(evs) ==
    IF evs = <<>> \/ ~panelOpen THEN <<>>
    ELSE (IF PanelPosts(Head(evs)) THEN <<PanelMessage(Head(evs))>> ELSE <<>>)
         \o PanelMessages(Tail(evs))

\* A listener of 'plan' that keeps the plan it already has.
RECURSIVE PanelPlanKeep(_, _)
PanelPlanKeep(cur, evs) ==
    IF evs = <<>> THEN cur
    ELSE PanelPlanKeep(IF Head(evs).type = "plan" /\ cur = NoPlan
                       THEN Head(evs).plan ELSE cur, Tail(evs))

\* The listener of 'plan': `this.currentPlan = event.plan` (event.plan is an
\* object, so the test `if (event.plan)` passes).  cur is this.currentPlan.
RECURSIVE PanelPlan(_, _)
PanelPlan(cur, evs) ==
    IF evs = <<>> THEN cur
    ELSE PanelPlan(IF Head(evs).type = "plan" THEN Head(evs).plan ELSE cur, Tail(evs))

\* emit of evs: the listeners of the chat participant and of the chat panel
\* run.
Observe(evs) ==
    /\ wait' = Notify(wait, evs)
    /\ currentPlan' = PanelPlan(currentPlan, evs)
    /\ Len(toWebview) + Len(PanelMessages(evs)) <= MaxQueue
    /\ toWebview' = toWebview \o PanelMessages(evs)

(***************************************************************************)
(* DSAgentClient.                                                          *)
(***************************************************************************)
\* A request that is closed while no handleRequest waits on it is garbage:
\* nothing refers to it any more.  Its record is dropped (Release) before
\* anything else happens, so closed requests do not pile up in the state.
\* In the same way a message of App is handled by onDidReceiveMessage before
\* anything else happens.
Releasable(s) == IsClosed(s) /\ wait[s] # "pending"

Settled == toHost = <<>> /\ \A s \in Streams : ~Releasable(s)

\* destroy() schedules the request's callback for the next tick of the event
\* loop: it runs after the code that called destroy() has returned and
\* before any other callback.
CallbackDue(s) == req[s].st \in {"hangup", "aborting"}

Quiescent == Settled /\ \A s \in Streams : ~CallbackDue(s)

Release(s) ==
    /\ toHost = <<>>
    /\ Releasable(s)
    /\ req' = [req EXCEPT ![s] = Unused]
    /\ wait' = [wait EXCEPT ![s] = "none"]
    /\ UNCHANGED <<currentSession, activeRequest, nReq, nFrames, toWebview, currentPlan>>

\* activeRequest.destroy(): closes the socket at once.  The callback that
\* follows depends on how far the response had come.
Destroy(r, why) ==
    IF r.st \in OpenStates
    THEN [r EXCEPT !.st = CASE r.st = "sent" -> "hangup"
                            [] r.st = "body" -> "aborting"
                            [] r.st = "errbody" -> "dropped",
                   !.cancel = why,
                   !.cancelAt = Len(r.emitted),
                   !.session = NoSession]
    ELSE r

\* createSession / resumeSession after the server answered: the current
\* session is replaced; 'sessionCreated' / 'sessionResumed' (no listener) and
\* 'connected' are emitted.  id is the id of the session the server returned.
SetSession(id) ==
    /\ Quiescent
    /\ currentSession # id
    /\ currentSession' = id
    /\ Observe(<<[type |-> "connected"]>>)
    /\ UNCHANGED <<activeRequest, nReq, nFrames, req>>

\* sendMessage(content) up to the return of the promise: abort the existing
\* stream, create the request, register it.
NewRequest == [Unused EXCEPT !.st = "sent", !.promise = "pending",
                            !.session = currentSession]

NewSlot == nReq + 1

\* A sendMessage that refuses once a stream has emitted 'error'.
OpenRequestUnlessError ==
    /\ currentSession # NoSession
    /\ \A s \in Streams : \A i \in DOMAIN req[s].emitted : req[s].emitted[i] # "error"
    /\ nReq < MaxStreams
    /\ nReq' = nReq + 1
    /\ req' = [s \in Streams |->
                 IF s = NewSlot THEN NewRequest
                 ELSE IF s = activeRequest THEN Destroy(req[s], "supersede")
                 ELSE req[s]]
    /\ activeRequest' = NewSlot

\* A sendMessage without the check of the current session.
OpenRequestAnySession ==
    /\ nReq < MaxStreams
    /\ nReq' = nReq + 1
    /\ req' = [s \in Streams |->
                 IF s = NewSlot THEN NewRequest
                 ELSE IF s = activeRequest THEN Destroy(req[s], "supersede")
                 ELSE req[s]]
    /\ activeRequest' = NewSlot

OpenRequest ==
    /\ currentSession # NoSession
    /\ nReq < MaxStreams
    /\ nReq' = nReq + 1
    /\ req' = [s \in Streams |->
                 IF s = NewSlot THEN NewRequest
                 ELSE IF s = activeRequest THEN Destroy(req[s], "supersede")
                 ELSE req[s]]
    /\ activeRequest' = NewSlot

SendMessage ==
    /\ Quiescent
    /\ OpenRequest
    /\ UNCHANGED <<currentSession, nFrames, toWebview, currentPlan>>

\* sendMessage(content) while there is no current session: it throws
\* 'No active session' before anything else; the caller's catch reports the
\* message to its own output.
SendMessageNoSession ==
    /\ Quiescent
    /\ currentSession = NoSession
    /\ UNCHANGED <<currentSession, activeRequest, nReq, nFrames, req, wait,
                   toWebview, currentPlan>>

\* DSAgentChatParticipant.handleRequest from "Send the message": registers
\* onComplete / onError and the cancellation handler, then calls sendMessage.
HandleRequest ==
    /\ SendMessage
    /\ wait' = [wait EXCEPT ![NewSlot] = "pending"]

\* token.onCancellationRequested of a handleRequest that is waiting.
CancelRequest(s) ==
    /\ Quiescent
    /\ wait[s] = "pending"
    /\ wait' = [wait EXCEPT ![s] = "resolved"]
    /\ UNCHANGED <<currentSession, activeRequest, nReq, nFrames, req, toWebview, currentPlan>>

\* The response callback `(res) => {...}`: status >= 400 collects the body,
\* otherwise the decoder state is created and the handlers are attached.
Response(s, statusCode) ==
    /\ Quiescent
    /\ req[s].st = "sent"
    /\ req' = [req EXCEPT ![s].st = IF statusCode >= 400 THEN "errbody" ELSE "body",
                          ![s].statusCode = statusCode]
    /\ UNCHANGED <<currentSession, activeRequest, nReq, nFrames, wait, toWebview, currentPlan>>

\* res.on('data') for a chunk that holds one complete frame (event line and
\* data line) whose payload parses: receivedDone, then handleSSEEvent.
OnFrame(s, frame) ==
    LET evs == HandleSSEEvent(frame.type, frame.data)
    IN  /\ req' = [req EXCEPT ![s] =
                     Emitted([@ EXCEPT !.receivedDone = (@ \/ frame.type = "done")], evs)]
        /\ Observe(evs)

ResData(s, frame) ==
    /\ Quiescent
    /\ req[s].st = "body"
    /\ nFrames < MaxFrames
    /\ nFrames' = nFrames + 1
    /\ OnFrame(s, frame)
    /\ UNCHANGED <<currentSession, activeRequest, nReq>>

\* A client whose res.on('end') emits nothing.
EndEventsSilent(receivedDone) == <<>>

\* A client whose res.on('end') emits 'complete' whatever was decoded.
EndEventsAlways(receivedDone) == <<[type |-> "complete"]>>

\* res.on('end') of a response with status < 400.
EndEvents(receivedDone) ==
    IF ~receivedDone THEN <<[type |-> "complete"]>> ELSE <<>>

ResEnd(s) ==
    /\ Quiescent
    /\ req[s].st = "body"
    /\ activeRequest' = NoRequest
    /\ LET evs == EndEvents(req[s].receivedDone)
       IN  /\ req' = [req EXCEPT ![s] =
                        Emitted([@ EXCEPT !.st = "ended", !.promise = "resolved",
                                   !.session = NoSession], evs)]
           /\ Observe(evs)
    /\ UNCHANGED <<currentSession, nReq, nFrames>>

\* Chunks of the body of a response with status >= 400: a detail that reads
\* like a frame.
ErrorChunks == {"event: done\ndata: {\"detail\":\"x\"}\n\n"}

\* res.on('data') of a response with status >= 400: `body += chunk`.
ResDataError(s, chunk) ==
    /\ Quiescent
    /\ req[s].st = "errbody"
    /\ nFrames < MaxFrames
    /\ nFrames' = nFrames + 1
    /\ req' = [req EXCEPT ![s].body = Append(@, chunk)]
    /\ UNCHANGED <<currentSession, activeRequest, nReq, wait, toWebview, currentPlan>>

\* The chunks of a body as one string.
RECURSIVE Join(_)
Join(chunks) == IF chunks = <<>> THEN "" ELSE Head(chunks) \o Join(Tail(chunks))

\* A message that leaves the body out.
ErrorDetailBare(statusCode, body) ==
    "Chat request failed (" \o ToString(statusCode) \o ")"

\* `Chat request failed (${res.statusCode}): ${body}`.
ErrorDetail(statusCode, body) ==
    "Chat request failed (" \o ToString(statusCode) \o "): " \o Join(body)

\* res.on('end') of a response with status >= 400.
ResEndError(s) ==
    /\ Quiescent
    /\ req[s].st = "errbody"
    /\ activeRequest' = NoRequest
    /\ LET evs == <<[type |-> "error",
                     message |-> ErrorDetail(req[s].statusCode, req[s].body)]>>
       IN  /\ req' = [req EXCEPT ![s] =
                        Emitted([@ EXCEPT !.st = "rejected", !.promise = "resolved",
                                   !.session = NoSession], evs)]
           /\ Observe(evs)
    /\ UNCHANGED <<currentSession, nReq, nFrames>>

\* res.on('error'): the connection failed while the body streamed, or the
\* request was destroyed while the body streamed (the response then emits
\* 'error' with message 'aborted').
ResError(s) ==
    /\ Settled
    /\ CallbackDue(s) \/ Quiescent
    /\ req[s].st \in {"body", "aborting"}
    /\ activeRequest' = NoRequest
    /\ LET evs == <<[type |-> "error", message |-> "aborted"]>>
       IN  /\ req' = [req EXCEPT ![s] =
                        Emitted([@ EXCEPT !.st = "errored", !.promise = "resolved",
                                   !.session = NoSession], evs)]
           /\ Observe(evs)
    /\ UNCHANGED <<currentSession, nReq, nFrames>>

\* req.on('error'): no response arrived.  After destroy() the message is
\* 'socket hang up'; a failed connection has another message, and a server
\* that closes the connection without answering also gives 'socket hang up'.
HangUp == "socket hang up"

ReqErrorMessages == {HangUp, "connect ECONNREFUSED"}

ReqErrorEvents(message) ==
    IF message = HangUp THEN <<>> ELSE <<[type |-> "error", message |-> message]>>

ReqError(s, message) ==
    /\ Settled
    /\ \/ req[s].st = "sent" /\ Quiescent
       \/ req[s].st = "hangup" /\ message = HangUp
    /\ activeRequest' = NoRequest
    /\ LET evs == ReqErrorEvents(message)
       IN  /\ req' = [req EXCEPT ![s] =
                        Emitted([@ EXCEPT !.st = IF message = HangUp THEN "hungup" ELSE "errored",
                                          !.promise = "resolved",
                                   !.session = NoSession], evs)]
           /\ Observe(evs)
    /\ UNCHANGED <<currentSession, nReq, nFrames>>

\* disconnect(): destroy the active request, forget the session, emit
\* 'disconnected'.  (abortController is never assigned.)  A disconnect with
\* neither a session nor a request changes no field and is left out.
Disconnect ==
    /\ Quiescent
    /\ currentSession # NoSession \/ activeRequest # NoRequest
    /\ req' = [s \in Streams |->
                 IF s = activeRequest THEN Destroy(req[s], "disconnect") ELSE req[s]]
    /\ activeRequest' = NoRequest
    /\ currentSession' = NoSession
    /\ Observe(<<[type |-> "disconnected"]>>)
    /\ UNCHANGED <<nReq, nFrames>>

\* deleteSession(sessionId) once the server has answered the DELETE: a
\* response that is not OK throws; otherwise disconnect() when sessionId is
\* the current session's id, and 'sessionDeleted' (no listener of the
\* modelled parts) is emitted.
DeleteSession(sessionId, ok) ==
    IF ok /\ currentSession = sessionId
    THEN Disconnect
    ELSE /\ Quiescent
         /\ UNCHANGED <<currentSession, activeRequest, nReq, nFrames, req, wait,
                        toWebview, currentPlan>>

\* Frames the server sends in the stream specification.
Frames ==
    { [type |-> "thinking", data |-> [message |-> "m"]],
      [type |-> "llm_response", data |-> [content |-> "c"]],
      [type |-> "done", data |-> <<>>],
      [type |-> "error", data |-> [error |-> "e"]] }

StatusCodes == {200, 500}

Next ==
    \/ \E id \in Sessions : SetSession(id) /\ UNCHANGED <<decVars, hostVars, app, wsVars, nb>>
    \/ HandleRequest /\ UNCHANGED <<decVars, hostVars, app, wsVars, nb>>
    \/ SendMessageNoSession /\ UNCHANGED <<decVars, hostVars, app, wsVars, nb>>
    \/ Disconnect /\ UNCHANGED <<decVars, hostVars, app, wsVars, nb>>
    \/ \E id \in Sessions, ok \in BOOLEAN :
          DeleteSession(id, ok) /\ UNCHANGED <<decVars, hostVars, app, wsVars, nb>>
    \/ \E s \in Streams : Release(s) /\ UNCHANGED <<decVars, hostVars, app, wsVars, nb>>
    \/ \E s \in Streams : CancelRequest(s) /\ UNCHANGED <<decVars, hostVars, app, wsVars, nb>>
    \/ \E s \in Streams, c \in StatusCodes : Response(s, c) /\ UNCHANGED <<decVars, hostVars, app, wsVars, nb>>
    \/ \E s \in Streams, f \in Frames : ResData(s, f) /\ UNCHANGED <<decVars, hostVars, app, wsVars, nb>>
    \/ \E s \in Streams : ResEnd(s) /\ UNCHANGED <<decVars, hostVars, app, wsVars, nb>>
    \/ \E s \in Streams, c \in ErrorChunks : ResDataError(s, c) /\ UNCHANGED <<decVars, hostVars, app, wsVars, nb>>
    \/ \E s \in Streams : ResEndError(s) /\ UNCHANGED <<decVars, hostVars, app, wsVars, nb>>
    \/ \E s \in Streams : ResError(s) /\ UNCHANGED <<decVars, hostVars, app, wsVars, nb>>
    \/ \E s \in Streams, m \in ReqErrorMessages : ReqError(s, m) /\ UNCHANGED <<decVars, hostVars, app, wsVars, nb>>

Spec == Init /\ [][Next]_vars

(***************************************************************************)
(* Frame decoder specification: one stream, delivered in arbitrary chunks. *)
(***************************************************************************)
InitDecoder ==
    /\ wire \in DecoderStreams
    /\ pos = 0
    /\ decoder = DecoderStart
    /\ currentSession = NoSession
    /\ activeRequest = NoRequest
    /\ nReq = 0
    /\ nFrames = 0
    /\ req = [s \in Streams |-> Unused]
    /\ wait = [s \in Streams |-> "none"]
    /\ PanelIdle
    /\ WsIdle
    /\ nb = NbIdle

\* The transport delivers the next k bytes as one chunk.
DeliverChunk(k) ==
    /\ pos + k <= Len(wire)
    /\ decoder' = OnData(decoder, SubSeq(wire, pos + 1, pos + k))
    /\ pos' = pos + k
    /\ UNCHANGED wire

NextDecoder ==
    \E k \in 1..Len(wire) :
        DeliverChunk(k) /\ UNCHANGED <<clientVars, hostVars, toWebview, currentPlan, app, wsVars, nb>>

SpecDecoder == InitDecoder /\ [][NextDecoder]_vars

(***************************************************************************)
(* End-of-stream specification: streams whose last line has no line        *)
(* terminator, delivered in arbitrary chunks, and the end of the response. *)
(***************************************************************************)
\* A plan frame, then a done frame whose data line is not terminated.
UnterminatedDone ==
    WireFrame(PlanType, JsonEmpty) \o EventMarker \o DoneType \o NL
        \o DataMarker \o JsonEmpty

\* A plan frame, then a data line that is not terminated.
UnterminatedData == WireFrame(PlanType, JsonAscii) \o DataMarker \o JsonEmpty

\* A plan frame and a done frame, both terminated.
TerminatedDone == WireFrame(PlanType, JsonEmpty) \o WireFrame(DoneType, JsonEmpty)

EofStreams == {UnterminatedDone, UnterminatedData, TerminatedDone}

InitEof ==
    /\ wire \in EofStreams
    /\ pos = 0
    /\ decoder = DecoderStart
    /\ currentSession = NoSession
    /\ activeRequest = NoRequest
    /\ nReq = 0
    /\ nFrames = 0
    /\ req = [s \in Streams |-> Unused]
    /\ wait = [s \in Streams |-> "none"]
    /\ PanelIdle
    /\ WsIdle
    /\ nb = NbIdle

\* The response ends once the server has sent everything.
DecoderEnd ==
    /\ pos = Len(wire)
    /\ ~decoder.ended
    /\ decoder' = OnEnd(decoder)
    /\ UNCHANGED <<wire, pos>>

NextEof ==
    \/ \E k \in 1..Len(wire) :
          (~decoder.ended /\ DeliverChunk(k))
             /\ UNCHANGED <<clientVars, hostVars, toWebview, currentPlan, app, wsVars, nb>>
    \/ DecoderEnd /\ UNCHANGED <<clientVars, hostVars, toWebview, currentPlan, app, wsVars, nb>>

SpecEof == InitEof /\ [][NextEof]_vars

(***************************************************************************)
(* HITL cycle: DSAgentClient, the commands of the chat participant,        *)
(* ChatPanelProvider and App.                                              *)
(***************************************************************************)
\* The HITL state of App: "idle", or the kind of the request it shows.
Awaiting == IF hitlRequest = NoHitl THEN "idle" ELSE hitlRequest.awaitingType

\* One HITL POST of the client: /hitl/approve and /hitl/reject carry no
\* body, /hitl/respond carries {action, message, modified_plan} and nothing
\* else.  "" stands for a member that is undefined.
HitlCall(endpoint, action, message, modified_plan) ==
    [endpoint |-> endpoint, session |-> currentSession, action |-> action,
     message |-> message, modified_plan |-> modified_plan]

\* `if (!this.currentSession) return; await this.fetch(...)`.
Fetch(call) ==
    IF currentSession = NoSession
    THEN UNCHANGED <<lastCall, nCalls>>
    ELSE lastCall' = call /\ nCalls' = nCalls + 1

\* approveAction(), as the command dsagent.approveAction calls it
\* (pendingHITL is never assigned, so the command does nothing else).
ApproveAction ==
    /\ Quiescent
    /\ nCalls < MaxCalls
    /\ Fetch(HitlCall("approve", "approve", "", ""))
    /\ UNCHANGED <<panelOpen, toWebview, toHost, hitlRequest, hitlFeedback, nResponds>>

\* rejectAction(), as the command dsagent.rejectAction calls it.
RejectAction ==
    /\ Quiescent
    /\ nCalls < MaxCalls
    /\ Fetch(HitlCall("reject", "reject", "", ""))
    /\ UNCHANGED <<panelOpen, toWebview, toHost, hitlRequest, hitlFeedback, nResponds>>

\* respondAction(action, message, modification).
RespondAction(action, message, modification) ==
    /\ Quiescent
    /\ nCalls < MaxCalls
    /\ Fetch(HitlCall("respond", action, message, modification))
    /\ UNCHANGED <<panelOpen, toWebview, toHost, hitlRequest, hitlFeedback, nResponds>>

\* A message of App to the extension host.
HostMsg(type, action, message, modified_plan, modified_code) ==
    [type |-> type, action |-> action, message |-> message,
     modified_plan |-> modified_plan, modified_code |-> modified_code,
     modification |-> ""]

\* ChatPanelProvider.show() when there is no panel: the panel is created
\* and App mounts with its initial state.
Show ==
    /\ Quiescent
    /\ ~panelOpen
    /\ panelOpen' = TRUE
    /\ hitlRequest' = NoHitl
    /\ hitlFeedback' = ""
    /\ app' = AppStart
    /\ UNCHANGED <<toWebview, toHost, lastCall, nCalls, nResponds>>

\* App.handleMessage for the oldest message posted to the webview (App runs
\* in the webview, so it does not wait for the callbacks of the extension
\* host).  As far as hitlRequest and hitlFeedback go: 'hitlRequest' replaces
\* the request shown and pre-fills the feedback, 'loadHistory' and 'newChat'
\* clear the request, every other type leaves both alone.
RequestShown(m) ==
    [awaitingType |-> IF m.awaitingType = "" THEN "plan" ELSE m.awaitingType,
     plan |-> m.plan, code |-> m.code, error |-> m.error,
     answer |-> m.answer, message |-> m.message]

Prefill(m) ==
    LET at == IF m.awaitingType = "" THEN "plan" ELSE m.awaitingType
    IN  IF at = "plan" /\ m.plan # "" THEN m.plan
        ELSE IF at = "code" /\ m.code # "" THEN m.code
        ELSE ""

\* A ChatMessageData of App.  An id is the pair of its prefix and a stamp
\* (Date.now()); the stamp used here is the number the message has in the
\* list, so ids are never equal.
NoResult == [present |-> FALSE, success |-> FALSE, stdout |-> "", error |-> ""]

ChatMessage(id, type, content, isStreaming) ==
    [id |-> id, type |-> type, content |-> content, isStreaming |-> isStreaming,
     plan |-> NoPlan, codeStatus |-> "", executionResult |-> NoResult]

\* `${prefix}-${Date.now()}`.
NewId(a, prefix) == <<prefix, a.now>>

\* updateMessage(id, updates): Upd is applied to every message with that id.
UpdateMessage(messages, id, updates) ==
    [i \in DOMAIN messages |->
        IF messages[i].id = id
        THEN [f \in DOMAIN messages[i] |->
                 IF f \in DOMAIN updates THEN updates[f] ELSE messages[i][f]]
        ELSE messages[i]]

\* updateMessage(currentAssistantIdRef.current, ...) under
\* `if (currentAssistantIdRef.current)`.
UpdateAssistant(a, updates) ==
    IF a.currentAssistantId # NoId
    THEN UpdateMessage(a.messages, a.currentAssistantId, updates)
    ELSE a.messages

\* The plan of the last history message that has one, or NoPlan.
RECURSIVE LastPlan(_)
LastPlan(messages) ==
    IF messages = <<>> THEN NoPlan
    ELSE IF messages[Len(messages)].plan # NoPlan THEN messages[Len(messages)].plan
         ELSE LastPlan(SubSeq(messages, 1, Len(messages) - 1))

\* App.handleMessage as far as the record app goes: the state after the
\* message m.  ('syncState', 'filesAttached' and 'fileUploadError' are not
\* posted by the modelled part of the panel; serverAvailable is left out.)
AppHandle(a, m) ==
    CASE m.type = "userMessage" ->
            LET assistantId == NewId(a, "assistant")
            IN  [a EXCEPT
                   !.hasAddedCode = FALSE,
                   !.lastCodeMessageId = NoId,
                   !.messages = (a.messages
                        \o <<ChatMessage(m.message.id, "user", m.message.content, FALSE)>>)
                        \o <<ChatMessage(assistantId, "assistant", "", TRUE)>>,
                   !.currentAssistantId = assistantId,
                   !.isStreaming = TRUE]
      [] m.type = "thinking" ->
            [a EXCEPT !.messages = UpdateAssistant(a,
                [content |-> OrText(m.content, "Thinking...")])]
      [] m.type = "llm_response" ->
            IF a.hasAddedCode /\ a.currentAssistantId # NoId
            THEN LET newId == NewId(a, "assistant-response")
                 IN  [a EXCEPT
                        !.messages = UpdateAssistant(a, [isStreaming |-> FALSE])
                                     \o <<ChatMessage(newId, "assistant", m.content, TRUE)>>,
                        !.currentAssistantId = newId,
                        !.hasAddedCode = FALSE]
            ELSE [a EXCEPT !.messages = UpdateAssistant(a, [content |-> m.content])]
      [] m.type = "plan" ->
            [a EXCEPT !.currentPlan = m.plan,
                      !.messages = UpdateAssistant(a, [plan |-> m.plan])]
      [] m.type = "codeExecuting" ->
            LET codeId == NewId(a, "code")
            IN  [a EXCEPT
                   !.hasAddedCode = TRUE,
                   !.lastCodeMessageId = codeId,
                   !.messages = a.messages \o
                        <<[ChatMessage(codeId, "code", m.code, FALSE) EXCEPT
                              !.codeStatus = "executing"]>>]
      [] m.type = "codeResult" ->
            IF a.lastCodeMessageId # NoId
            THEN [a EXCEPT !.messages = UpdateMessage(a.messages, a.lastCodeMessageId,
                    [codeStatus |-> IF m.result.success THEN "success" ELSE "error",
                     executionResult |-> [present |-> TRUE,
                                             success |-> m.result.success,
                                             stdout |-> m.result.output,
                                             error |-> m.result.error]])]
            ELSE a
      [] m.type = "answer" ->
            [a EXCEPT !.messages = UpdateAssistant(a,
                            [content |-> m.content, isStreaming |-> FALSE]),
                      !.isStreaming = FALSE]
      [] m.type = "error" ->
            [a EXCEPT !.messages = UpdateAssistant(a,
                            [content |-> "Error: " \o m.message,
                             isStreaming |-> FALSE]),
                      !.isStreaming = FALSE]
      [] m.type = "complete" ->
            [a EXCEPT !.messages = UpdateAssistant(a, [isStreaming |-> FALSE]),
                      !.isStreaming = FALSE]
      [] m.type = "loadHistory" ->
            [a EXCEPT !.messages = m.messages,
                      !.isStreaming = FALSE,
                      !.currentAssistantId = NoId,
                      !.lastCodeMessageId = NoId,
                      !.hasAddedCode = FALSE,
                      !.currentPlan = IF LastPlan(m.messages) # NoPlan
                                      THEN LastPlan(m.messages) ELSE a.currentPlan]
      [] m.type = "newChat" -> AppStart
      [] OTHER -> a

\* The values Date.now() can have when App handles m.  Only the cases that
\* build an id read the clock.  A 'userMessage' follows an action of the
\* user and a round trip to the extension host: the clock has advanced.
\* Messages of one stream can be handled within the same millisecond.
Clock(a, m) ==
    CASE m.type = "userMessage" -> {a.now + 1}
      [] m.type = "codeExecuting" -> {a.now, a.now + 1}
      [] m.type = "llm_response" /\ a.hasAddedCode /\ a.currentAssistantId # NoId
            -> {a.now, a.now + 1}
      [] OTHER -> {a.now}

HandleMessage ==
    /\ Settled
    /\ toWebview # <<>>
    /\ toWebview' = Tail(toWebview)
    /\ LET m == Head(toWebview)
       IN  /\ \E t \in Clock(app, m) : app' = AppHandle([app EXCEPT !.now = t], m)
           /\ CASE m.type = "hitlRequest" ->
                    /\ hitlRequest' = RequestShown(m)
                    /\ hitlFeedback' = Prefill(m)
             [] m.type \in {"loadHistory", "newChat"} ->
                    /\ hitlRequest' = NoHitl
                    /\ UNCHANGED hitlFeedback
             [] OTHER -> UNCHANGED <<hitlRequest, hitlFeedback>>
    /\ UNCHANGED <<panelOpen, toHost, lastCall, nCalls, nResponds>>

\* String.prototype.trim() on the texts the feedback box can hold.
Blank == " "

TrimText(t) == IF t = Blank THEN "" ELSE t

FeedbackTexts == {"", Blank, "T"}

\* The textarea's onChange; the HITL block is rendered only while a
\* request is shown.
SetHitlFeedback(text) ==
    /\ Quiescent
    /\ hitlRequest # NoHitl
    /\ hitlFeedback # text
    /\ hitlFeedback' = text
    /\ UNCHANGED <<panelOpen, toWebview, toHost, hitlRequest, lastCall, nCalls, nResponds>>

\* An App whose sendHitlRespond posts and leaves the request on display.
SendHitlRespondKeep(action, message, modified_plan, modified_code) ==
    /\ Quiescent
    /\ toHost' = Append(toHost, HostMsg("hitlRespond", action, message,
                                        modified_plan, modified_code))
    /\ nResponds' = nResponds + 1
    /\ UNCHANGED <<panelOpen, toWebview, lastCall, nCalls, hitlRequest, hitlFeedback>>

\* sendHitlRespond(action, payload): post 'hitlRespond', then clear the
\* request and the feedback.
SendHitlRespond(action, message, modified_plan, modified_code) ==
    /\ Quiescent
    /\ toHost' = Append(toHost, HostMsg("hitlRespond", action, message,
                                        modified_plan, modified_code))
    /\ hitlRequest' = NoHitl
    /\ hitlFeedback' = ""
    /\ nResponds' = nResponds + 1
    /\ UNCHANGED <<panelOpen, toWebview, lastCall, nCalls>>

\* The buttons of the HITL block.
HandleApprove ==
    /\ hitlRequest # NoHitl
    /\ SendHitlRespond("approve", TrimText(hitlFeedback), "", "")

HandleReject ==
    /\ hitlRequest # NoHitl
    /\ SendHitlRespond("reject", TrimText(hitlFeedback), "", "")

HandleModify ==
    /\ hitlRequest # NoHitl
    /\ hitlRequest.awaitingType \in {"plan", "code"}
    /\ TrimText(hitlFeedback) # ""
    /\ IF hitlRequest.awaitingType = "plan"
       THEN SendHitlRespond("modify", "", TrimText(hitlFeedback), "")
       ELSE SendHitlRespond("modify", "", "", TrimText(hitlFeedback))

HandleRetry ==
    /\ hitlRequest # NoHitl
    /\ SendHitlRespond("retry", "", "", "")

HandleSkip ==
    /\ hitlRequest # NoHitl
    /\ SendHitlRespond("skip", "", "", "")

HandleFeedback ==
    /\ hitlRequest # NoHitl
    /\ TrimText(hitlFeedback) # ""
    /\ SendHitlRespond("feedback", TrimText(hitlFeedback), "", "")

\* The onDidReceiveMessage callback of the panel for the oldest message of
\* App: `switch (data.type)`, the cases that call the client.  There is no
\* case 'hitlRespond' and no default, so that message is taken and nothing
\* is done with it.  (case 'sendMessage' is the action HandleSendMessage.)
OnDidReceiveMessage ==
    /\ toHost # <<>>
    /\ Head(toHost).type # "sendMessage"
    /\ toHost' = Tail(toHost)
    /\ LET data == Head(toHost)
       IN  CASE data.type = "approve" ->
                    /\ Fetch(HitlCall("approve", "approve", "", ""))
                    /\ UNCHANGED toWebview
             [] data.type = "reject" ->
                    /\ Fetch(HitlCall("reject", "reject", "", ""))
                    /\ UNCHANGED toWebview
             [] data.type = "modify" ->
                    /\ Fetch(HitlCall("respond", "modify", data.message,
                                      data.modification))
                    /\ UNCHANGED toWebview
             [] OTHER -> UNCHANGED <<toWebview, lastCall, nCalls>>
    /\ UNCHANGED <<panelOpen, hitlRequest, hitlFeedback, nResponds>>

\* hitl_request frames the server sends in the HITL specification: one of
\* each kind, and one without request_type.
HitlFrame(request_type, plan, code, error) ==
    [type |-> "hitl_request",
     data |-> [request_type |-> request_type, plan |-> plan, code |-> code,
               error |-> error]]

HitlFrames ==
    { HitlFrame("plan", "P", "", ""),
      HitlFrame("code", "", "C", ""),
      HitlFrame("error", "", "", "E"),
      HitlFrame("", "P", "", "") }

Modifications == {"", "X"}

\* The HITL specification starts where the client has a session and the
\* response of a sendMessage is streaming (SetSession, SendMessage and
\* Response(1, 200) lead there), and sends no further message.
InitHitl ==
    /\ currentSession \in Sessions
    /\ activeRequest = 1
    /\ nReq = 1
    /\ nFrames = 0
    /\ req = [s \in Streams |-> IF s = 1 THEN [NewRequest EXCEPT !.st = "body"] ELSE Unused]
    /\ wait = [s \in Streams |-> "none"]
    /\ DecoderIdle
    /\ PanelIdle
    /\ WsIdle
    /\ nb = NbIdle

NextHitl ==
    \/ \E s \in Streams, f \in HitlFrames : ResData(s, f) /\ UNCHANGED <<decVars, hostVars, app, wsVars, nb>>
    \/ \E s \in Streams : ResEnd(s) /\ UNCHANGED <<decVars, hostVars, app, wsVars, nb>>
    \/ \E s \in Streams : Release(s) /\ UNCHANGED <<decVars, hostVars, app, wsVars, nb>>
    \/ Show /\ UNCHANGED <<decVars, clientVars, currentPlan, wsVars, nb>>
    \/ HandleMessage /\ UNCHANGED <<decVars, clientVars, currentPlan, wsVars, nb>>
    \/ \E t \in FeedbackTexts : SetHitlFeedback(t) /\ UNCHANGED <<decVars, clientVars, currentPlan, app, wsVars, nb>>
    \/ HandleApprove /\ UNCHANGED <<decVars, clientVars, currentPlan, app, wsVars, nb>>
    \/ HandleReject /\ UNCHANGED <<decVars, clientVars, currentPlan, app, wsVars, nb>>
    \/ HandleModify /\ UNCHANGED <<decVars, clientVars, currentPlan, app, wsVars, nb>>
    \/ HandleRetry /\ UNCHANGED <<decVars, clientVars, currentPlan, app, wsVars, nb>>
    \/ HandleSkip /\ UNCHANGED <<decVars, clientVars, currentPlan, app, wsVars, nb>>
    \/ HandleFeedback /\ UNCHANGED <<decVars, clientVars, currentPlan, app, wsVars, nb>>
    \/ OnDidReceiveMessage /\ UNCHANGED <<decVars, clientVars, currentPlan, app, wsVars, nb>>
    \/ ApproveAction /\ UNCHANGED <<decVars, clientVars, currentPlan, app, wsVars, nb>>
    \/ RejectAction /\ UNCHANGED <<decVars, clientVars, currentPlan, app, wsVars, nb>>
    \/ \E m \in Modifications :
          RespondAction("modify", "", m) /\ UNCHANGED <<decVars, clientVars, currentPlan, app, wsVars, nb>>

SpecHitl == InitHitl /\ [][NextHitl]_vars

(***************************************************************************)
(* Session changes while App shows a HITL request: disconnect(),           *)
(* ChatPanelProvider.startNewChat and ChatPanelProvider.loadSession.       *)
(***************************************************************************)
\* startNewChat(name, hitlMode) once createSession has answered, with the
\* panel open (App can show a request only while there is a panel):
\* createSession replaces the session and emits 'connected', then 'newChat'
\* is posted.  id is the id of the session the server created.
StartNewChat(id) ==
    /\ Quiescent
    /\ panelOpen
    /\ id # currentSession
    /\ currentSession' = id
    /\ LET evs == <<[type |-> "connected"]>>
       IN  /\ wait' = Notify(wait, evs)
           /\ Len(toWebview) + Len(PanelMessages(evs)) + 1 <= MaxQueue
           /\ toWebview' = (toWebview \o PanelMessages(evs)) \o <<Msg("newChat")>>
    /\ currentPlan' = NoPlan
    /\ UNCHANGED <<activeRequest, nReq, nFrames, req>>

\* Numbers of turns the server returns for a session's history.
HistoryLengths == {0, 1}

\* turnsToMessages(turns) for a history of n turns, each with a user message
\* and assistant content, no code and no plan.
TurnsToMessages(n) ==
    [i \in 1..(2 * n) |->
        IF i % 2 = 1
        THEN ChatMessage(<<"user", (i + 1) \div 2>>, "user", "q", FALSE)
        ELSE ChatMessage(<<"assistant", i \div 2>>, "assistant", "a", FALSE)]

\* loadSession(sessionId) once resumeSession and getTurns have answered, with
\* the panel open: resumeSession replaces the session and emits 'connected';
\* loadHistory posts 'loadHistory' only when the session has turns.
LoadSession(id, turns) ==
    /\ Quiescent
    /\ panelOpen
    /\ currentSession' = id
    /\ LET evs == <<[type |-> "connected"]>>
           history == IF turns > 0
                      THEN <<[Msg("loadHistory") EXCEPT !.messages = TurnsToMessages(turns)]>>
                      ELSE <<>>
       IN  /\ wait' = Notify(wait, evs)
           /\ Len(toWebview) + Len(PanelMessages(evs)) + Len(history) <= MaxQueue
           /\ toWebview' = (toWebview \o PanelMessages(evs)) \o history
    /\ currentPlan' = NoPlan
    /\ UNCHANGED <<activeRequest, nReq, nFrames, req>>

\* The session specification starts where the panel is open, the client has
\* a session and the response of a sendMessage is streaming.
InitSession ==
    /\ currentSession \in Sessions
    /\ activeRequest = 1
    /\ nReq = 1
    /\ nFrames = 0
    /\ req = [s \in Streams |-> IF s = 1 THEN [NewRequest EXCEPT !.st = "body"] ELSE Unused]
    /\ wait = [s \in Streams |-> "none"]
    /\ DecoderIdle
    /\ panelOpen = TRUE
    /\ toWebview = <<>>
    /\ toHost = <<>>
    /\ hitlRequest = NoHitl
    /\ hitlFeedback = ""
    /\ lastCall = NoCall
    /\ nCalls = 0
    /\ nResponds = 0
    /\ currentPlan = NoPlan
    /\ app = AppStart
    /\ WsIdle
    /\ nb = NbIdle

NextSession ==
    \/ \E s \in Streams, f \in HitlFrames : ResData(s, f) /\ UNCHANGED <<decVars, hostVars, app, wsVars, nb>>
    \/ \E s \in Streams : ResEnd(s) /\ UNCHANGED <<decVars, hostVars, app, wsVars, nb>>
    \/ \E s \in Streams : ResError(s) /\ UNCHANGED <<decVars, hostVars, app, wsVars, nb>>
    \/ \E s \in Streams : Release(s) /\ UNCHANGED <<decVars, hostVars, app, wsVars, nb>>
    \/ Disconnect /\ UNCHANGED <<decVars, hostVars, app, wsVars, nb>>
    \/ \E id \in Sessions : StartNewChat(id) /\ UNCHANGED <<decVars, hostVars, app, wsVars, nb>>
    \/ \E id \in Sessions, n \in HistoryLengths :
          LoadSession(id, n) /\ UNCHANGED <<decVars, hostVars, app, wsVars, nb>>
    \/ HandleMessage /\ UNCHANGED <<decVars, clientVars, currentPlan, wsVars, nb>>
    \/ HandleApprove /\ UNCHANGED <<decVars, clientVars, currentPlan, app, wsVars, nb>>
    \/ OnDidReceiveMessage /\ UNCHANGED <<decVars, clientVars, currentPlan, app, wsVars, nb>>
    \/ ApproveAction /\ UNCHANGED <<decVars, clientVars, currentPlan, app, wsVars, nb>>

SpecSession == InitSession /\ [][NextSession]_vars

(***************************************************************************)
(* A turn of the chat panel: App.handleSendMessage, the panel's            *)
(* handleSendMessage, the stream of the request and App.handleMessage.     *)
(* In this specification wire is the sequence of frames the server sends   *)
(* on the streams (one complete frame per chunk) and pos the number of     *)
(* frames delivered.                                                       *)
(***************************************************************************)
\* App.handleSendMessage(content): `if (isStreaming) return`, then post
\* 'sendMessage' (no files are attached).  The queue to the webview must
\* have room for the two messages the panel will post.
AppSendMessage(content) ==
    /\ Quiescent
    /\ panelOpen
    /\ ~app.isStreaming
    /\ Len(toWebview) + 2 <= MaxQueue
    /\ toHost' = Append(toHost, [type |-> "sendMessage", content |-> content])
    /\ UNCHANGED <<panelOpen, toWebview, hitlRequest, hitlFeedback, lastCall,
                   nCalls, nResponds, app>>

\* onDidReceiveMessage case 'sendMessage': handleSendMessage(content) with a
\* session (the branch that first creates a session is not modelled): post
\* 'userMessage' and 'thinking', then client.sendMessage(content).
HandleSendMessage ==
    /\ toHost # <<>>
    /\ Head(toHost).type = "sendMessage"
    /\ toHost' = Tail(toHost)
    /\ Len(toWebview) + 2 <= MaxQueue
    /\ toWebview' = (toWebview
          \o <<[Msg("userMessage") EXCEPT
                  !.message = [id |-> <<"user", NewSlot>>,
                               content |-> Head(toHost).content]]>>)
          \o <<[Msg("thinking") EXCEPT !.content = "Processing..."]>>
    /\ OpenRequest
    /\ UNCHANGED <<currentSession, nFrames, wait, currentPlan, panelOpen,
                   hitlRequest, hitlFeedback, lastCall, nCalls, nResponds, app>>

\* res.on('data') for the next frame of the script.
ResDataNext(s) ==
    /\ Quiescent
    /\ req[s].st = "body"
    /\ pos < Len(wire)
    /\ pos' = pos + 1
    /\ OnFrame(s, wire[pos + 1])
    /\ UNCHANGED <<currentSession, activeRequest, nReq, nFrames, wire, decoder>>

\* Scripts: the scenario thinking, llm_response, done; and every sequence
\* of one to MaxPlans plan frames.
MaxPlans == 2

HelloScript ==
    << [type |-> "thinking", data |-> [message |-> "m"]],
       [type |-> "llm_response", data |-> [content |-> "c"]],
       [type |-> "done", data |-> <<>>] >>

PlanStep(number, completed) ==
    [number |-> number, description |-> "d", completed |-> completed]

PlanFrame(steps, raw_text, completed_steps, total_steps) ==
    [type |-> "plan",
     data |-> [steps |-> steps, raw_text |-> raw_text,
               completed_steps |-> completed_steps, total_steps |-> total_steps]]

PlanFrames ==
    { PlanFrame(<<PlanStep(1, TRUE), PlanStep(2, FALSE), PlanStep(3, FALSE)>>, "R", 1, 3),
      PlanFrame(<<PlanStep(1, TRUE), PlanStep(2, TRUE), PlanStep(3, FALSE)>>, "R", 2, 3),
      PlanFrame(<<>>, "", Undefined, Undefined) }

PlanScripts == UNION {[1..n -> PlanFrames] : n \in 1..MaxPlans}

TurnScripts == {HelloScript} \cup PlanScripts

Contents == {"hello"}

\* The turn specification starts where the panel is open, App is mounted and
\* the client has a fresh session: no message was sent on it.
InitTurn ==
    /\ currentSession \in Sessions
    /\ activeRequest = NoRequest
    /\ nReq = 0
    /\ nFrames = 0
    /\ req = [s \in Streams |-> Unused]
    /\ wait = [s \in Streams |-> "none"]
    /\ wire \in TurnScripts
    /\ pos = 0
    /\ decoder = DecoderStart
    /\ panelOpen = TRUE
    /\ toWebview = <<>>
    /\ toHost = <<>>
    /\ hitlRequest = NoHitl
    /\ hitlFeedback = ""
    /\ lastCall = NoCall
    /\ nCalls = 0
    /\ nResponds = 0
    /\ currentPlan = NoPlan
    /\ app = AppStart
    /\ WsIdle
    /\ nb = NbIdle

\* The connection of a turn does not fail: res 'error' comes only from the
\* destroy() of a superseding sendMessage.
NextTurn ==
    \/ \E c \in Contents : AppSendMessage(c) /\ UNCHANGED <<decVars, clientVars, currentPlan, wsVars, nb>>
    \/ HandleSendMessage /\ UNCHANGED <<decVars, wsVars, nb>>
    \/ \E s \in Streams : Response(s, 200) /\ UNCHANGED <<decVars, hostVars, app, wsVars, nb>>
    \/ \E s \in Streams : ResDataNext(s) /\ UNCHANGED <<hostVars, app, wsVars, nb>>
    \/ \E s \in Streams : ResEnd(s) /\ UNCHANGED <<decVars, hostVars, app, wsVars, nb>>
    \/ \E s \in Streams : (CallbackDue(s) /\ ResError(s)) /\ UNCHANGED <<decVars, hostVars, app, wsVars, nb>>
    \/ \E s \in Streams : Release(s) /\ UNCHANGED <<decVars, hostVars, app, wsVars, nb>>
    \/ HandleMessage /\ UNCHANGED <<decVars, clientVars, currentPlan, wsVars, nb>>

SpecTurn == InitTurn /\ [][NextTurn]_vars

(***************************************************************************)
(* Code specification: the turns of the chat panel on a stream that        *)
(* carries code sub-turns.                                                 *)
(***************************************************************************)
CodeFrame(code) == [type |-> "code_executing", data |-> [code |-> code]]

ResultFrame(success, stdout, error) ==
    [type |-> "code_result",
     data |-> [success |-> success, stdout |-> stdout, error |-> error]]

\* Two code sub-turns, each closed by its result.
CodeScript ==
    << CodeFrame("1+1"), ResultFrame(TRUE, "2", ""),
       CodeFrame("1/0"), ResultFrame(FALSE, "", "e"),
       [type |-> "done", data |-> <<>>] >>

\* Two code sub-turns opened in a row and one result.
NestedCodeScript ==
    << CodeFrame("1+1"), CodeFrame("2+2"), ResultFrame(TRUE, "4", ""),
       [type |-> "done", data |-> <<>>] >>

CodeScripts == {CodeScript, NestedCodeScript}

InitCode ==
    /\ currentSession = "session-1"
    /\ activeRequest = NoRequest
    /\ nReq = 0
    /\ nFrames = 0
    /\ req = [s \in Streams |-> Unused]
    /\ wait = [s \in Streams |-> "none"]
    /\ wire \in CodeScripts
    /\ pos = 0
    /\ decoder = DecoderStart
    /\ panelOpen = TRUE
    /\ toWebview = <<>>
    /\ toHost = <<>>
    /\ hitlRequest = NoHitl
    /\ hitlFeedback = ""
    /\ lastCall = NoCall
    /\ nCalls = 0
    /\ nResponds = 0
    /\ currentPlan = NoPlan
    /\ app = AppStart
    /\ WsIdle
    /\ nb = NbIdle

SpecCode == InitCode /\ [][NextTurn]_vars

(***************************************************************************)
(* Round specification: a turn whose stream carries a round_complete frame *)
(* and then a done frame.                                                  *)
(***************************************************************************)
RoundFrame(has_answer, answer) ==
    [type |-> "round_complete", data |-> [has_answer |-> has_answer, answer |-> answer]]

RoundScripts ==
    { << RoundFrame(h, a), [type |-> "done", data |-> <<>>] >> :
         h \in BOOLEAN, a \in {"", "A"} }

InitRound ==
    /\ currentSession = "session-1"
    /\ activeRequest = NoRequest
    /\ nReq = 0
    /\ nFrames = 0
    /\ req = [s \in Streams |-> Unused]
    /\ wait = [s \in Streams |-> "none"]
    /\ wire \in RoundScripts
    /\ pos = 0
    /\ decoder = DecoderStart
    /\ panelOpen = TRUE
    /\ toWebview = <<>>
    /\ toHost = <<>>
    /\ hitlRequest = NoHitl
    /\ hitlFeedback = ""
    /\ lastCall = NoCall
    /\ nCalls = 0
    /\ nResponds = 0
    /\ currentPlan = NoPlan
    /\ app = AppStart
    /\ WsIdle
    /\ nb = NbIdle

SpecRound == InitRound /\ [][NextTurn]_vars

(***************************************************************************)
(* Status specification: the chat panel and the chat participant send      *)
(* messages to a server that answers with any status and an empty stream.  *)
(***************************************************************************)
InitStatus ==
    /\ currentSession = "session-1"
    /\ activeRequest = NoRequest
    /\ nReq = 0
    /\ nFrames = 0
    /\ req = [s \in Streams |-> Unused]
    /\ wait = [s \in Streams |-> "none"]
    /\ DecoderIdle
    /\ panelOpen = TRUE
    /\ toWebview = <<>>
    /\ toHost = <<>>
    /\ hitlRequest = NoHitl
    /\ hitlFeedback = ""
    /\ lastCall = NoCall
    /\ nCalls = 0
    /\ nResponds = 0
    /\ currentPlan = NoPlan
    /\ app = AppStart
    /\ WsIdle
    /\ nb = NbIdle

NextStatus ==
    \/ \E c \in Contents : AppSendMessage(c) /\ UNCHANGED <<decVars, clientVars, currentPlan, wsVars, nb>>
    \/ HandleSendMessage /\ UNCHANGED <<decVars, wsVars, nb>>
    \/ HandleRequest /\ UNCHANGED <<decVars, hostVars, app, wsVars, nb>>
    \/ \E s \in Streams, c \in StatusCodes : Response(s, c) /\ UNCHANGED <<decVars, hostVars, app, wsVars, nb>>
    \/ \E s \in Streams, c \in ErrorChunks : ResDataError(s, c) /\ UNCHANGED <<decVars, hostVars, app, wsVars, nb>>
    \/ \E s \in Streams : ResEndError(s) /\ UNCHANGED <<decVars, hostVars, app, wsVars, nb>>
    \/ \E s \in Streams : ResEnd(s) /\ UNCHANGED <<decVars, hostVars, app, wsVars, nb>>
    \/ \E s \in Streams : (CallbackDue(s) /\ ResError(s)) /\ UNCHANGED <<decVars, hostVars, app, wsVars, nb>>
    \/ \E s \in Streams : ReqError(s, HangUp) /\ UNCHANGED <<decVars, hostVars, app, wsVars, nb>>
    \/ \E s \in Streams : Release(s) /\ UNCHANGED <<decVars, hostVars, app, wsVars, nb>>
    \/ HandleMessage /\ UNCHANGED <<decVars, clientVars, currentPlan, wsVars, nb>>

SpecStatus == InitStatus /\ [][NextStatus]_vars

\* The steps that need no action of a user: the handlers of messages that
\* are queued and the callbacks of the requests.  Every stream comes to an
\* end and every handler that is due runs.
StatusProgress ==
    \/ HandleSendMessage /\ UNCHANGED <<decVars, wsVars, nb>>
    \/ \E s \in Streams, c \in StatusCodes : Response(s, c) /\ UNCHANGED <<decVars, hostVars, app, wsVars, nb>>
    \/ \E s \in Streams : ResEndError(s) /\ UNCHANGED <<decVars, hostVars, app, wsVars, nb>>
    \/ \E s \in Streams : ResEnd(s) /\ UNCHANGED <<decVars, hostVars, app, wsVars, nb>>
    \/ \E s \in Streams : (CallbackDue(s) /\ ResError(s)) /\ UNCHANGED <<decVars, hostVars, app, wsVars, nb>>
    \/ \E s \in Streams : ReqError(s, HangUp) /\ UNCHANGED <<decVars, hostVars, app, wsVars, nb>>
    \/ \E s \in Streams : Release(s) /\ UNCHANGED <<decVars, hostVars, app, wsVars, nb>>
    \/ HandleMessage /\ UNCHANGED <<decVars, clientVars, currentPlan, wsVars, nb>>

LiveStatus == SpecStatus /\ WF_vars(StatusProgress)

(***************************************************************************)
(* WebSocketHandler: the persistent connection and its reconnection        *)
(* policy.                                                                 *)
(***************************************************************************)
\* Bound of the model: the sockets that are not yet closed plus the
\* reconnect timers that are pending.
MaxSockets == 2

SocketIds == 1..MaxSockets

\* A socket created by connect().  st: "connecting", "open", "closing"
\* (close() was called, onclose has not yet run) or "none" (closed, or never
\* created).  timeout: the 10 s timer of its connect() is pending.
\* promise: the promise its connect() returned.
NoSocket == [st |-> "none", timeout |-> FALSE, promise |-> "none"]

Live(s) == sockets[s].st # "none"

Lineages == Cardinality({s \in SocketIds : Live(s)}) + Cardinality(timers)

FreeSocket == CHOOSE s \in SocketIds : ~Live(s) /\ \A t \in 1..(s - 1) : Live(t)

FreeTimer == CHOOSE t \in SocketIds : t \notin timers /\ \A u \in 1..(t - 1) : u \in timers

\* Math.pow(2, n) for a natural number n.
RECURSIVE Pow2(_)
Pow2(n) == IF n = 0 THEN 1 ELSE 2 * Pow2(n - 1)

Min(a, b) == IF a <= b THEN a ELSE b

MaxDelay == 30000

\* A delay that doubles without a cap.
ReconnectDelayUncapped(interval, attempts) == interval * Pow2(attempts - 1)

\* The delay attemptReconnect computes once reconnectAttempts is incremented.
ReconnectDelay(interval, attempts) ==
    Min(interval * Pow2(attempts - 1), MaxDelay)

\* options of the constructor: the defaults, a single attempt, and six
\* attempts.
OptionSets ==
    [reconnect : BOOLEAN, maxReconnectAttempts : {1, 5, 6}, reconnectInterval : {1000}]

\* The body of connect(): a new socket replaces this.ws; the socket this.ws
\* referred to is not closed.
OpenSocket ==
    /\ intentionalClose' = FALSE
    /\ sockets' = [sockets EXCEPT ![FreeSocket] =
                      [st |-> "connecting", timeout |-> TRUE, promise |-> "pending"]]
    /\ ws' = FreeSocket

\* connect() called by the owner of the handler.
Connect ==
    /\ Lineages < MaxSockets
    /\ OpenSocket
    /\ lastEvent' = "none"
    /\ UNCHANGED <<options, reconnectAttempts, reconnectTimeout, timers,
                   reconnecting, autoAttempts>>

\* The callback of a reconnect timer: connect(), its rejection is ignored.
TimerFires(t) ==
    /\ t \in timers
    /\ timers' = timers \ {t}
    /\ OpenSocket
    /\ autoAttempts' = autoAttempts + 1
    /\ UNCHANGED <<options, reconnectAttempts, reconnectTimeout, reconnecting,
                   lastEvent>>

\* An onopen that leaves the attempt counter alone.
OnOpenKeep(s) ==
    /\ sockets[s].st = "connecting"
    /\ sockets' = [sockets EXCEPT ![s] =
                      [st |-> "open", timeout |-> FALSE, promise |-> "resolved"]]
    /\ autoAttempts' = 0
    /\ UNCHANGED <<options, ws, reconnectAttempts, reconnectTimeout, timers,
                   intentionalClose, reconnecting, lastEvent>>

\* ws.onopen: clear the timeout, reset the attempt counter, emit 'open',
\* resolve.
OnOpen(s) ==
    /\ sockets[s].st = "connecting"
    /\ sockets' = [sockets EXCEPT ![s] =
                      [st |-> "open", timeout |-> FALSE, promise |-> "resolved"]]
    /\ reconnectAttempts' = 0
    /\ autoAttempts' = 0
    /\ UNCHANGED <<options, ws, reconnectTimeout, timers, intentionalClose,
                   reconnecting, lastEvent>>

\* An attemptReconnect that never gives up.
AttemptReconnectUnbounded ==
    /\ reconnectAttempts' = reconnectAttempts + 1
    /\ reconnecting' = <<reconnectAttempts + 1,
                         ReconnectDelay(options.reconnectInterval,
                                        reconnectAttempts + 1)>>
    /\ lastEvent' = "reconnecting"
    /\ timers' = timers \cup {FreeTimer}
    /\ reconnectTimeout' = FreeTimer

\* attemptReconnect().
AttemptReconnect ==
    IF reconnectAttempts >= options.maxReconnectAttempts
    THEN /\ lastEvent' = "reconnectFailed"
         /\ UNCHANGED <<reconnectAttempts, reconnecting, timers, reconnectTimeout>>
    ELSE /\ reconnectAttempts' = reconnectAttempts + 1
         /\ reconnecting' = <<reconnectAttempts + 1,
                              ReconnectDelay(options.reconnectInterval,
                                             reconnectAttempts + 1)>>
         /\ lastEvent' = "reconnecting"
         /\ timers' = timers \cup {FreeTimer}
         /\ reconnectTimeout' = FreeTimer

\* A socket once onclose has run: the timeout is cleared.  Neither onerror
\* nor onclose settles the promise: one that is pending stays pending, and
\* one that is settled is of no further interest.
Closed(sock) ==
    [NoSocket EXCEPT !.promise = IF sock.promise = "pending" THEN "pending" ELSE "none"]

\* ws.onclose of a socket: after close(), after a failed attempt (ws.onerror
\* ran just before and cleared the timeout) or when the connection is lost.
OnClose(s) ==
    /\ Live(s)
    /\ sockets' = [sockets EXCEPT ![s] = Closed(sockets[s])]
    /\ IF ~intentionalClose /\ options.reconnect
       THEN AttemptReconnect
       ELSE UNCHANGED <<reconnectAttempts, reconnecting, lastEvent, timers,
                        reconnectTimeout>>
    /\ UNCHANGED <<options, ws, intentionalClose, autoAttempts>>

\* close() of the socket this.ws refers to, if it is not yet closed.
CloseWs(socks) ==
    IF ws # 0 /\ socks[ws].st \in {"connecting", "open"}
    THEN [socks EXCEPT ![ws].st = "closing"]
    ELSE socks

\* The 10 s timer of a connect(): `this.ws?.close()` and reject.
ConnectTimeout(s) ==
    /\ sockets[s].timeout
    /\ sockets' = CloseWs([sockets EXCEPT ![s].timeout = FALSE,
                                          ![s].promise = IF @ = "pending" THEN "rejected" ELSE @])
    /\ UNCHANGED <<options, ws, reconnectAttempts, reconnectTimeout, timers,
                   intentionalClose, reconnecting, lastEvent, autoAttempts>>

\* WebSocketHandler.disconnect().
WsDisconnect ==
    /\ intentionalClose' = TRUE
    /\ timers' = timers \ {reconnectTimeout}
    /\ reconnectTimeout' = 0
    /\ sockets' = CloseWs(sockets)
    /\ ws' = 0
    /\ UNCHANGED <<options, reconnectAttempts, reconnecting, lastEvent, autoAttempts>>

\* The handler as constructed; nothing else of the extension runs.
InitReconnect ==
    /\ currentSession = NoSession
    /\ activeRequest = NoRequest
    /\ nReq = 0
    /\ nFrames = 0
    /\ req = [s \in Streams |-> Unused]
    /\ wait = [s \in Streams |-> "none"]
    /\ DecoderIdle
    /\ PanelIdle
    /\ options \in OptionSets
    /\ sockets = [s \in SocketIds |-> NoSocket]
    /\ ws = 0
    /\ reconnectAttempts = 0
    /\ reconnectTimeout = 0
    /\ timers = {}
    /\ intentionalClose = FALSE
    /\ reconnecting = <<0, 0>>
    /\ lastEvent = "none"
    /\ autoAttempts = 0
    /\ nb = NbIdle

otherVars == <<clientVars, decVars, hostVars, toWebview, currentPlan, app, nb>>

NextReconnect ==
    \/ Connect /\ UNCHANGED otherVars
    \/ WsDisconnect /\ UNCHANGED otherVars
    \/ \E t \in SocketIds : TimerFires(t) /\ UNCHANGED otherVars
    \/ \E s \in SocketIds : OnOpen(s) /\ UNCHANGED otherVars
    \/ \E s \in SocketIds : OnClose(s) /\ UNCHANGED otherVars
    \/ \E s \in SocketIds : ConnectTimeout(s) /\ UNCHANGED otherVars

SpecReconnect == InitReconnect /\ [][NextReconnect]_vars

\* The timers of the event loop fire, and a socket on which close() was
\* called is closed; whether and when a socket opens or fails is up to the
\* network.
ReconnectProgress ==
    \/ \E s \in SocketIds : ConnectTimeout(s) /\ UNCHANGED otherVars
    \/ \E t \in SocketIds : TimerFires(t) /\ UNCHANGED otherVars
    \/ \E s \in SocketIds : (sockets[s].st = "closing" /\ OnClose(s)) /\ UNCHANGED otherVars

LiveReconnect == SpecReconnect /\ WF_vars(ReconnectProgress)

(***************************************************************************)
(* NotebookSyncService: code_executing appends a cell to the session       *)
(* notebook, code_result fills the output of the pending cell.             *)
(*   nb.open: this.notebook is set and not closed; nb.cells: the cells of  *)
(*   the document, each with the number of its code and of its output (0:  *)
(*   no output); nb.pendingCellIndex; nb.ops: the calls of appendCodeCell  *)
(*   and fillCellOutput that are suspended at an await, oldest first;      *)
(*   nb.sent: how many events the service has received.  The server sends  *)
(*   code_executing k and then code_result k, for k = 1, 2, ...            *)
(***************************************************************************)
\* Bound of the model: the code sub-turns of the stream.
MaxCode == 3

NbCell(code, output) == [code |-> code, output |-> output]

NbOp(kind, stage, code, index, output) ==
    [kind |-> kind, stage |-> stage, code |-> code, index |-> index, output |-> output]

\* NotebookEdit.insertCells(index, [cell]) applied to the document.
InsertCells(cells, index, cell) ==
    SubSeq(cells, 1, index) \o <<cell>> \o SubSeq(cells, index + 1, Len(cells))

RemoveAt(seq, i) == SubSeq(seq, 1, i - 1) \o SubSeq(seq, i + 1, Len(seq))

\* The listener of 'code_executing': appendCodeCell(code) up to its first
\* await.  With the notebook open that is applyEdit, and insertIndex is
\* doc.cellCount as it is now; otherwise it is openSessionNotebook().
NbCodeExecuting ==
    /\ nb.sent % 2 = 0
    /\ nb.sent < 2 * MaxCode
    /\ LET k == (nb.sent \div 2) + 1
           op == IF nb.open
                 THEN NbOp("append", "applying", k, Len(nb.cells), 0)
                 ELSE NbOp("append", "opening", k, -1, 0)
       IN  nb' = [nb EXCEPT !.sent = @ + 1, !.ops = Append(@, op)]

\* openSessionNotebook() of a suspended appendCodeCell has returned: the
\* notebook is open, and appendCodeCell goes on to applyEdit.
NbOpened(i) ==
    /\ i \in DOMAIN nb.ops
    /\ nb.ops[i].stage = "opening"
    /\ nb' = [nb EXCEPT !.open = TRUE,
                        !.ops[i] = [@ EXCEPT !.stage = "applying",
                                             !.index = Len(nb.cells)]]

\* The oldest applyEdit has been applied and its await returns: an append
\* then sets pendingCellIndex to its insertIndex, a fill sets it to -1.
NbApplied(i) ==
    /\ i \in DOMAIN nb.ops
    /\ nb.ops[i].stage = "applying"
    /\ \A j \in 1..(i - 1) : nb.ops[j].stage # "applying"
    /\ LET op == nb.ops[i]
       IN  IF op.kind = "append"
           THEN nb' = [nb EXCEPT
                         !.cells = InsertCells(@, op.index, NbCell(op.code, 0)),
                         !.pendingCellIndex = op.index,
                         !.ops = RemoveAt(@, i)]
           ELSE nb' = [nb EXCEPT
                         !.cells = [c \in DOMAIN @ |->
                                      IF c = op.index + 1
                                      THEN NbCell(@[c].code, op.output) ELSE @[c]],
                         !.pendingCellIndex = -1,
                         !.ops = RemoveAt(@, i)]

\* The listener of 'code_result': fillCellOutput(result) up to its await.
\* It returns at once when no notebook is open or no cell is pending;
\* otherwise it updates the outputs of the cell at pendingCellIndex.
NbCodeResult ==
    /\ nb.sent % 2 = 1
    /\ LET k == (nb.sent + 1) \div 2
       IN  IF ~nb.open \/ nb.pendingCellIndex < 0
           THEN nb' = [nb EXCEPT !.sent = @ + 1]
           ELSE nb' = [nb EXCEPT
                         !.sent = @ + 1,
                         !.ops = Append(@, NbOp("fill", "applying", k,
                                                nb.pendingCellIndex, k))]

nbOtherVars == <<clientVars, decVars, hostVars, toWebview, currentPlan, app, wsVars>>

\* The service with a session, the notebook open or not yet open.
InitNotebook ==
    /\ currentSession = "session-1"
    /\ activeRequest = NoRequest
    /\ nReq = 0
    /\ nFrames = 0
    /\ req = [s \in Streams |-> Unused]
    /\ wait = [s \in Streams |-> "none"]
    /\ DecoderIdle
    /\ PanelIdle
    /\ WsIdle
    /\ \E o \in BOOLEAN : nb = [NbIdle EXCEPT !.open = o]

NextNotebook ==
    \/ NbCodeExecuting /\ UNCHANGED nbOtherVars
    \/ NbCodeResult /\ UNCHANGED nbOtherVars
    \/ \E i \in 1..(2 * MaxCode) : NbOpened(i) /\ UNCHANGED nbOtherVars
    \/ \E i \in 1..(2 * MaxCode) : NbApplied(i) /\ UNCHANGED nbOtherVars

SpecNotebook == InitNotebook /\ [][NextNotebook]_vars

(***************************************************************************)
(* Properties of the client's streams (specification Spec).                *)
(***************************************************************************)
Last(seq) == seq[Len(seq)]

\* C1: at every point at most one stream (request/response) is open per
\* client instance; a sendMessage issued while a stream is active cancels it
\* before the new one is opened, so two are never open together.
AtMostOneStreamOpen == Cardinality({s \in Streams : IsOpen(s)}) <= 1

\* C3: a response that ends (clean EOF) without a `done` frame having been
\* decoded has had 'complete' synthesized as its last event, the promise of
\* sendMessage is resolved and the handleRequest waiting on it is resumed.
EofWithoutDoneCompletes ==
    \A s \in Streams :
        (req[s].st = "ended" /\ ~req[s].receivedDone)
            => /\ req[s].emitted # <<>>
               /\ Last(req[s].emitted) = "complete"
               /\ req[s].promise = "resolved"
               /\ wait[s] # "pending"

\* Witness of C3: the only request received two frames, neither `done` nor
\* `error` (thinking, llm_response), then the response ended; 'complete' was
\* emitted once and the wait is resolved.
EofWithoutDoneReached ==
    \E s \in Streams :
        /\ req[s].st = "ended" /\ ~req[s].receivedDone
        /\ nReq = 1 /\ nFrames = 2
        /\ req[s].emitted = <<"complete">>
        /\ req[s].promise = "resolved"
        /\ wait[s] = "resolved"

\* C5: the wait of a caller (the promise of sendMessage and the wait of
\* handleRequest) is terminated for every way its stream can end: once the
\* request is closed, its promise is settled and its handleRequest is no
\* longer waiting.
WaitTerminatedWhenStreamEnds ==
    \A s \in Streams :
        IsClosed(s) => (req[s].promise = "resolved" /\ wait[s] # "pending")

\* C6: an error is a single terminal notification: once a stream has emitted
\* 'error', it emits no further 'error' and no 'complete'.
SingleTerminalNotification ==
    \A s \in Streams :
        \A i \in DOMAIN req[s].emitted :
            req[s].emitted[i] = "error" => i = Len(req[s].emitted)

\* C7: a stream cancelled because the caller opened a new one surfaces no
\* 'error' event after the cancellation, whether it was cancelled before the
\* response started or while the body was streaming.
SupersedeSurfacesNoError ==
    \A s \in Streams :
        req[s].cancel = "supersede"
            => \A i \in (req[s].cancelAt + 1)..Len(req[s].emitted) :
                   req[s].emitted[i] # "error"

\* C2: for every valid frame stream and every way of splitting it into
\* chunks, the frames handed to handleSSEEvent once all bytes are delivered
\* are the frames of the unsplit stream, in the same order.
ChunkBoundaryInvariance ==
    (wire # <<>> /\ pos = Len(wire)) => decoder.out = UnsplitFrames(wire)

(***************************************************************************)
(* Properties of the HITL cycle (specification SpecHitl).  Every frame of  *)
(* that specification is a hitl_request, so nFrames counts the requests    *)
(* the client has received.                                                *)
(***************************************************************************)
PendingRequests ==
    Len(SelectSeq(toWebview, LAMBDA m : m.type = "hitlRequest"))

Outstanding == IF hitlRequest = NoHitl THEN 0 ELSE 1

ModifyOfCodeRejectedLocally ==
    [][(/\ Awaiting = "code"
        /\ nCalls' = nCalls + 1
        /\ lastCall'.action = "modify"
        /\ lastCall'.modified_plan # "") => FALSE]_vars

\* C9: a HITL response submitted while no request is outstanding is
\* rejected locally: a call is sent to the server only while App shows a
\* request or the client has received more requests than it has answered.
NoResponseWithoutRequest ==
    [][nCalls' = nCalls + 1 => (hitlRequest # NoHitl \/ nCalls < nFrames)]_vars

\* C10: every respond of App (which returns the HITL state to idle) emits
\* exactly one HITL response carrying its action to the server: the step
\* in which the extension host takes the 'hitlRespond' message sends one
\* call with that action.
RespondEmitsResponse ==
    [][(/\ toHost # <<>>
        /\ Head(toHost).type = "hitlRespond"
        /\ toHost' = Tail(toHost))
          => (nCalls' = nCalls + 1 /\ lastCall'.action = Head(toHost).action)]_vars

(***************************************************************************)
(* Properties of session changes (specification SpecSession).              *)
(***************************************************************************)
\* C11: when the session disconnects while a HITL request is awaiting a
\* decision, the HITL state returns to idle: once the client has no session
\* and App has handled everything posted to it, no request is on display.
DisconnectAbandonsRequest ==
    (currentSession = NoSession /\ Quiescent /\ toWebview = <<>>)
        => hitlRequest = NoHitl

\* C12: when the session is replaced while a HITL request is awaiting a
\* decision, the HITL state returns to idle: the step that replaces the
\* session while App shows a request posts a message that clears it
\* ('newChat' or 'loadHistory').
ReplaceAbandonsRequest ==
    [][(/\ hitlRequest # NoHitl
        /\ currentSession' # currentSession
        /\ currentSession' # NoSession)
          => \E i \in DOMAIN toWebview' :
                 toWebview'[i].type \in {"newChat", "loadHistory"}]_vars

(***************************************************************************)
(* Properties of a turn of the chat panel (specification SpecTurn).        *)
(***************************************************************************)
\* The plan frames delivered so far, and the 'plan' messages App has not yet
\* handled.
PlansSeen == SelectSeq(SubSeq(wire, 1, pos), LAMBDA f : f.type = "plan")

PlansPending == SelectSeq(toWebview, LAMBDA m : m.type = "plan")

\* C13: a plan frame fully replaces the prior PlanState: after any sequence
\* of plan frames the plan of the panel, and the plan of App once it has
\* handled the messages, has the steps, raw text, progress and total of the
\* last frame alone; after plan(total 3, completed 1), plan(total 3,
\* completed 2) the progress is "2/3" and the total 3.
PlanReplacedWholesale ==
    PlansSeen # <<>> =>
        LET data == Last(PlansSeen).data
        IN  /\ currentPlan.steps = data.steps
            /\ currentPlan.raw_text = data.raw_text
            /\ currentPlan = PlanState(data)
            /\ PlansPending = <<>> => app.currentPlan = currentPlan
            /\ (data.completed_steps = 2 /\ data.total_steps = 3)
                  => (currentPlan.progress = "2/3" /\ currentPlan.total_steps = 3)
            /\ (data.completed_steps = Undefined /\ data.total_steps = Undefined)
                  => (currentPlan.progress = "0/0" /\ currentPlan.total_steps = 0)

\* Witness of C13: the frames plan(total 3, completed 1), plan(total 3,
\* completed 2) were delivered in that order and App has handled both: its
\* plan shows 2/3.
PlanTwoOfThreeShown ==
    /\ Len(wire) = 2 /\ pos = 2
    /\ wire[1].data.completed_steps = 1 /\ wire[1].data.total_steps = 3
    /\ wire[2].data.completed_steps = 2 /\ wire[2].data.total_steps = 3
    /\ toWebview = <<>>
    /\ app.currentPlan.progress = "2/3"
    /\ app.currentPlan.total_steps = 3
    /\ app.currentPlan.steps = wire[2].data.steps

(***************************************************************************)
(* Properties of the WebSocketHandler (specification SpecReconnect).       *)
(***************************************************************************)
\* The delays of attempts 1..6 for a base delay of 1000 ms and a cap of
\* 30000 ms.
BackoffTable == <<1000, 2000, 4000, 8000, 16000, 30000>>

ReconnectAttemptsBounded ==
    /\ autoAttempts <= options.maxReconnectAttempts
    /\ lastEvent = "reconnectFailed" => timers = {}

StatusErrorIsTerminal ==
    [][\A s \in Streams :
          /\ (req[s].st = "errbody" /\ req'[s].st = "rejected")
                => /\ toWebview' = Append(toWebview,
                          [Msg("error") EXCEPT
                              !.message = "Chat request failed (500): " \o Join(req[s].body)])
                   /\ req'[s].emitted = <<"error">>
                   /\ ~req'[s].receivedDone
                   /\ req'[s].promise = "resolved"
                   /\ \A t \in Streams : wait'[t] # "pending"
                   /\ nReq' = nReq
                   /\ activeRequest' = NoRequest
                   /\ \A t \in Streams \ {s} : req'[t] = req[t]
          /\ (req[s].st = "errbody" /\ req'[s].st = "errbody" /\ req'[s].body # req[s].body)
                => /\ toWebview' = toWebview
                   /\ wait' = wait
                   /\ req'[s].emitted = <<>>
                   /\ ~req'[s].receivedDone]_vars

\* Witness of C17: a response with status 500 whose body read like a `done`
\* frame has ended; the chat participant's wait on it is resolved and the
\* message for the webview carries the status and the body.
StatusErrorSurfaced ==
    \E s \in Streams :
        /\ req[s].st = "rejected"
        /\ req[s].statusCode = 500
        /\ Len(req[s].body) = 1
        /\ wait[s] = "resolved"
        /\ toWebview # <<>>
        /\ Last(toWebview).type = "error"
        /\ Last(toWebview).message
              = "Chat request failed (500): event: done\ndata: {\"detail\":\"x\"}\n\n"

(***************************************************************************)
(* Properties of the frame decoder's order and decode errors               *)
(* (specification SpecDecoder).                                            *)
(***************************************************************************)
IsPrefix(a, b) == Len(a) <= Len(b) /\ a = SubSeq(b, 1, Len(a))

\* The frames of DroppedStream that can be parsed.
DroppedStreamFrames ==
    << [type |-> PlanType, data |-> <<>>], [type |-> DoneType, data |-> <<>>] >>

\* C18: a data line whose payload cannot be parsed is dropped without
\* emitting an event and without ending the stream: for every chunking of
\* the stream of a plan frame with the data lines `{` (cut short) and `{}`
\* and a done frame, the frames handed to handleSSEEvent are always a prefix
\* of plan {}, done {},
\* they are exactly these two once all bytes are delivered, and the stream
\* is done only with the `done` frame.
UnparseableLineDropped ==
    wire = DroppedStream
        => /\ IsPrefix(decoder.out, DroppedStreamFrames)
           /\ pos = Len(wire) => decoder.out = DroppedStreamFrames
           /\ decoder.done <=> Len(decoder.out) = 2

\* Witness of C18: the whole stream with the broken line was delivered and
\* the two later frames were handed over.
DroppedStreamDelivered ==
    /\ wire = DroppedStream
    /\ pos = Len(wire)
    /\ decoder.out = DroppedStreamFrames
    /\ decoder.done

\* The event types of the frames a stream carries, in wire order.  The
\* fourth of WireStreams starts with a data line that has no event line.
FrameTypes(w) ==
    CASE w = RepeatStream -> <<PlanType, PlanType>>
      [] w = DroppedStream -> <<PlanType, DoneType>>
      [] w = WireFrame(ErrorType, JsonAscii) -> <<ErrorType>>
      [] w = DataMarker \o JsonAscii \o NL \o <<"\r", "\n">> \o WireFrame(DoneType, JsonEmpty)
            -> << <<>>, DoneType >>
      [] OTHER -> <<PlanType, DoneType>>

\* How many data lines with a payload that parses end within the first n
\* bytes of the stream w.
FramesArrived(w, n) == Len(UnsplitFrames(SubSeq(w, 1, n)))

\* C19: frames are processed strictly in arrival order, with no reordering
\* and no coalescing: for every stream and every chunking the types of the
\* frames handed to handleSSEEvent are, at every point, the types of the
\* first frames on the wire, one for each frame that has arrived in full,
\* and all of them once the stream is delivered.
FramesInArrivalOrder ==
    LET types == [i \in DOMAIN decoder.out |-> decoder.out[i].type]
    IN  wire # <<>>
            => /\ IsPrefix(types, FrameTypes(wire))
               /\ Len(types) = FramesArrived(wire, pos)
               /\ pos = Len(wire) => types = FrameTypes(wire)

\* Witness of C19: of two equal plan frames in a row the first was handed
\* over while the second is partly in the buffer, and later both were.
RepeatedFrameNotMerged ==
    /\ wire = RepeatStream
    /\ \/ Len(decoder.out) = 1 /\ decoder.buf # <<>> /\ decoder.cet = PlanType
       \/ Len(decoder.out) = 2 /\ decoder.out[1] = decoder.out[2] /\ pos = Len(wire)

(***************************************************************************)
(* Scenario of a plain turn (specification SpecTurn).                      *)
(***************************************************************************)
\* The single request of the session received every frame of the script and
\* App has handled every message.
TurnDelivered ==
    /\ nReq = 1
    /\ pos = Len(wire)
    /\ toWebview = <<>>
    /\ toHost = <<>>

\* C20: on a fresh session, after sendMessage("hello") delivers the frames
\* thinking, llm_response{content: "c"}, done in that order, the turn shown
\* is the user message followed by one assistant message whose content is
\* the llm_response content and which is no longer streaming, and App is no
\* longer streaming.
HelloTurnCompletes ==
    (wire = HelloScript /\ TurnDelivered)
        => /\ Len(app.messages) = 2
           /\ app.messages[1].type = "user"
           /\ app.messages[1].content = "hello"
           /\ app.messages[2].type = "assistant"
           /\ app.messages[2].content = "c"
           /\ ~app.messages[2].isStreaming
           /\ ~app.isStreaming

\* Witness of C20: the scenario has run to its end and the stream has ended.
HelloTurnShown ==
    /\ wire = HelloScript
    /\ TurnDelivered
    /\ activeRequest = NoRequest
    /\ Len(app.messages) = 2
    /\ app.messages[2].content = "c"
    /\ ~app.isStreaming

(***************************************************************************)
(* Properties of code sub-turns (specification SpecCode).                  *)
(***************************************************************************)
\* The code messages App shows, in order.
CodeMessages == SelectSeq(app.messages, LAMBDA msg : msg.type = "code")

\* C21: a code_result closes the most recently opened code sub-turn and
\* changes no other: after code_executing{1+1}, code_result{true, "2"},
\* code_executing{1/0}, code_result{false, "", "e"}, done were delivered on
\* the only stream, the first code message has success true and stdout "2" and
\* the second has success false and error "e"; after two code sub-turns
\* opened in a row and one result, only the second has a result.
CodeResultClosesLatest ==
    /\ (wire = CodeScript /\ TurnDelivered)
          => /\ Len(CodeMessages) = 2
             /\ CodeMessages[1].executionResult
                  = [present |-> TRUE, success |-> TRUE, stdout |-> "2", error |-> ""]
             /\ CodeMessages[1].codeStatus = "success"
             /\ CodeMessages[2].executionResult
                  = [present |-> TRUE, success |-> FALSE, stdout |-> "", error |-> "e"]
             /\ CodeMessages[2].codeStatus = "error"
    /\ (wire = NestedCodeScript /\ TurnDelivered)
          => /\ Len(CodeMessages) = 2
             /\ CodeMessages[1].executionResult = NoResult
             /\ CodeMessages[2].executionResult
                  = [present |-> TRUE, success |-> TRUE, stdout |-> "4", error |-> ""]

(***************************************************************************)
(* Properties of errors and retries (specification Spec).                  *)
(***************************************************************************)
\* The stream s has handed an `error` frame to handleSSEEvent in this step.
ErrorFrameStep(s) ==
    /\ req[s].st = "body"
    /\ req'[s].st = "body"
    /\ req'[s].emitted = Append(req[s].emitted, "error")

\* A stream that is still read has emitted 'error'.
ErrorFrameSeen ==
    \E s \in Streams :
        /\ req[s].st = "body"
        /\ \E i \in DOMAIN req[s].emitted : req[s].emitted[i] = "error"

\* C22: an `error` frame ends the turn only: the step that handles it leaves
\* currentSession and activeRequest as they are and creates no request, and
\* while the session is set a following sendMessage is accepted (up to the
\* bound on requests) and opens a new stream in the same session.
ErrorFrameKeepsSession ==
    /\ []((ErrorFrameSeen /\ currentSession # NoSession /\ Quiescent /\ nReq < MaxStreams)
            => ENABLED HandleRequest)
    /\ [][/\ \A s \in Streams :
                ErrorFrameStep(s)
                    => /\ currentSession' = currentSession
                       /\ activeRequest' = activeRequest
                       /\ nReq' = nReq
          /\ (ErrorFrameSeen /\ nReq' = nReq + 1)
                => /\ currentSession' = currentSession
                   /\ currentSession # NoSession
                   /\ req'[nReq'].st = "sent"
                   /\ activeRequest' = nReq']_vars

\* Witness of C22: the first stream emitted 'error' for an error frame and
\* was superseded by a second sendMessage, whose stream is open.
SendAfterErrorFrame ==
    /\ currentSession # NoSession
    /\ nReq = 2
    /\ req[1].emitted = <<"error">>
    /\ req[1].cancel = "supersede"
    /\ req[2].st = "sent"
    /\ activeRequest = 2

\* The request s was open, was not destroyed by the client, and is closed in
\* this step by an error callback: the transport failed.
TransportFailureStep(s) ==
    /\ req[s].st \in {"sent", "body"}
    /\ req'[s].st \in {"errored", "hungup"}

\* C23: a failed sendMessage is not retried: the step in which the transport
\* of an open request fails emits 'error' for that request, the one terminal
\* StreamError of the attempt, and creates no request.
TransportFailureSurfacedOnce ==
    [][\A s \in Streams :
          TransportFailureStep(s)
              => /\ req'[s].emitted = Append(req[s].emitted, "error")
                 /\ nReq' = nReq
                 /\ \A t \in Streams \ {s} : req'[t] = req[t]]_vars

\* C24: whenever a stream opened by sendMessage is still open, activeRequest
\* refers to it: the callbacks of an earlier stream never clear or overwrite
\* the handle of the stream that is open.
ActiveRequestIsOpenStream ==
    \A s \in Streams : IsOpen(s) => activeRequest = s

(***************************************************************************)
(* Liveness of the chat webview (specification LiveStatus).                *)
(***************************************************************************)
\* C25: after every 'userMessage' shown in the webview (App sets
\* isStreaming), isStreaming eventually returns to false, for every way the
\* stream can end.
StreamingEventuallyEnds == app.isStreaming ~> ~app.isStreaming

\* A frame of stream s is decoded and handed to handleSSEEvent.
StreamFrameStep(s) == \E f \in Frames : ResData(s, f)

\* C26: once createSession / resumeSession has replaced the session, no frame
\* of a stream of the previous session is delivered: every frame that reaches
\* the observers comes from a stream that was opened for the current session.
EventsBelongToCurrentSession ==
    [][\A s \in Streams : StreamFrameStep(s) => req[s].session = currentSession]_vars

\* A stream is open for a session that is no longer the current one.
StreamOfReplacedSession ==
    \E s \in Streams : /\ req[s].st = "body"
                       /\ req[s].session # currentSession
                       /\ currentSession # NoSession

\* How many 'complete' events the callbacks of a request have emitted.
Completions(r) == Len(SelectSeq(r.emitted, LAMBDA t : t = "complete"))

ConnectSettles ==
    \A s \in SocketIds :
        sockets[s].promise = "pending" ~> sockets[s].promise \in {"resolved", "rejected"}

\* The attempt of a connect() failed before the socket opened, and its promise
\* is pending with neither socket nor timeout left.
ConnectLeftPending ==
    \E s \in SocketIds : ~Live(s) /\ sockets[s].promise = "pending"

\* C29: in every interleaving of connect(), disconnect(), socket callbacks and
\* timer firings the handler has at most one socket that is not closed or
\* reconnect timer that is pending; the late close callback of a socket that
\* disconnect() closed does not schedule a reconnect once connect() was
\* called again.
AtMostOneLineage == Lineages <= 1

\* After disconnect() and connect() the old socket's close callback has run:
\* a reconnect timer is pending beside the socket of the new connect().
LateCloseScheduledReconnect ==
    /\ ws # 0 /\ Live(ws)
    /\ timers # {}
    /\ lastEvent = "reconnecting"

\* C30: an intentional close does not trigger reconnection: from disconnect()
\* until the next connect() no reconnect timer is pending and no reconnect
\* is scheduled ('reconnecting' is emitted exactly when attemptReconnect
\* sets a timer), whether disconnect() was called with a timer pending, during
\* an attempt or on an open connection.
IntentionalCloseStaysClosed ==
    /\ [](intentionalClose => timers = {})
    /\ [][intentionalClose => timers' \subseteq timers]_vars

(***************************************************************************)
(* Properties of the last group of claims.                                 *)
(***************************************************************************)
\* The stream of WireStreams that starts with a data line: no event line
\* precedes the payload.
TypelessStream ==
    DataMarker \o JsonAscii \o NL \o <<"\r", "\n">> \o WireFrame(DoneType, JsonEmpty)

MessageType == <<"m", "e", "s", "s", "a", "g", "e">>

\* C31: a payload that arrives with no event line before it on the stream is
\* handed on as a frame of type "message".
TypelessPayloadIsMessage ==
    (wire = TypelessStream /\ decoder.out # <<>>) => decoder.out[1].type = MessageType

\* C32: every HITL response that is emitted has the payload its action
\* needs: a `modify` carries the modified text (of the plan or of the code)
\* and a `feedback` carries a text, both in the message App posts and in the
\* call the client sends to the server.
ResponsePayloadShaped ==
    /\ \A i \in DOMAIN toHost :
          toHost[i].type = "hitlRespond" =>
              /\ toHost[i].action = "modify" =>
                    (toHost[i].modified_plan # "" \/ toHost[i].modified_code # "")
              /\ toHost[i].action = "feedback" => toHost[i].message # ""
    /\ lastCall.action = "modify" => lastCall.modified_plan # ""
    /\ lastCall.action = "feedback" => lastCall.message # ""

\* The texts of thinking frames and the placeholders that stand for them.
ThinkingTexts == {"m", "Processing...", "Thinking..."}

\* C33: thinking text is transient: once the stream of a turn has
\* terminated (App is no longer streaming and nothing is on its way to App),
\* the content of no assistant message is the text of a thinking frame or
\* the placeholder thinking text.
ThinkingNotPersisted ==
    (~app.isStreaming /\ toWebview = <<>>)
        => \A i \in DOMAIN app.messages :
              app.messages[i].type = "assistant" => app.messages[i].content \notin ThinkingTexts

\* The next frame of the script is a round_complete frame and this step
\* hands it to handleSSEEvent.
RoundCompleteStep == pos' = pos + 1 /\ wire[pos + 1].type = "round_complete"

\* C34: a round_complete frame yields an answer event if and only if an
\* answer is present (has_answer is set and the answer text is not empty);
\* the frame does not end the stream: no terminal event is emitted, no
\* request changes its state and no wait is resolved.
RoundCompleteAnswersIffPresent ==
    [][RoundCompleteStep =>
          LET d == wire[pos + 1].data
              present == d.has_answer /\ d.answer # ""
          IN  /\ toWebview' = toWebview \o
                    (IF present THEN <<[Msg("answer") EXCEPT !.content = d.answer]>>
                     ELSE <<>>)
              /\ \A s \in Streams : /\ req'[s].st = req[s].st
                                    /\ req'[s].emitted = req[s].emitted
                                    /\ req'[s].receivedDone = req[s].receivedDone
              /\ wait' = wait
              /\ activeRequest' = activeRequest]_vars

\* A round_complete frame with the answer "A" was delivered: App shows "A" as
\* the assistant message, and the stream is still open.
AnswerShownStreamOpen ==
    /\ wire \in RoundScripts /\ pos = 1
    /\ wire[1].data.has_answer /\ wire[1].data.answer = "A"
    /\ Len(app.messages) = 2 /\ app.messages[2].content = "A"
    /\ \E s \in Streams : req[s].st = "body"

\* C35: in every reachable state of the WebSocketHandler the attempt counter
\* is between 0 and maxReconnectAttempts, and the delay announced by the
\* latest 'reconnecting' event is at most 30000 ms.
AttemptsAndDelayWithinBounds ==
    /\ reconnectAttempts >= 0
    /\ reconnectAttempts <= options.maxReconnectAttempts
    /\ reconnecting[2] <= 30000

\* The counter stands at its maximum of 6, the last delay announced was the
\* capped one, and a further close has made attemptReconnect give up.
GaveUpAtMaximum ==
    /\ options.maxReconnectAttempts = 6
    /\ reconnectAttempts = 6
    /\ reconnecting = <<6, 30000>>
    /\ lastEvent = "reconnectFailed"

\* C36: the output of each code_result is attached to the cell appended for
\* the latest code_executing: no cell carries the output of another cell's
\* code, and once nothing is in progress every result received is on the
\* cell of its code.
OutputOnCellOfItsCode ==
    /\ \A c \in DOMAIN nb.cells : nb.cells[c].output \in {0, nb.cells[c].code}
    /\ nb.ops = <<>> =>
          \A k \in 1..(nb.sent \div 2) :
              \E c \in DOMAIN nb.cells : nb.cells[c] = NbCell(k, k)

\* C37: the session is torn down locally on disconnect() and on the deletion
\* of the current session: the step leaves no stream in flight, no active
\* request and no current session; deleteSession of another session, and a
\* deleteSession the server refuses, leave session and streams as they are.
SessionTornDownLocally ==
    [][/\ (currentSession # NoSession /\ currentSession' = NoSession)
            => /\ activeRequest' = NoRequest
               /\ \A s \in Streams : req'[s].st \notin OpenStates
       /\ \A id \in Sessions, ok \in BOOLEAN :
             (DeleteSession(id, ok) /\ ~(ok /\ currentSession = id))
                 => UNCHANGED <<currentSession, activeRequest, req>>]_vars

\* The frames of the streams of the end-of-stream specification that are
\* terminated by a line feed.
EofFrames(w) ==
    CASE w = UnterminatedDone -> << [type |-> PlanType, data |-> <<>>] >>
      [] w = UnterminatedData -> << [type |-> PlanType, data |-> <<"k", "v">>] >>
      [] OTHER -> << [type |-> PlanType, data |-> <<>>],
                     [type |-> DoneType, data |-> <<>>] >>

\* The data lines that end with a line feed within the first n bytes of w.
TerminatedDataLines(w, n) ==
    LET lines == SplitLines(SubSeq(w, 1, n), <<>>)
    IN  Len(SelectSeq(SubSeq(lines, 1, Len(lines) - 1),
                      LAMBDA l : StartsWith(l, DataMarker)))

\* C38: when the stream ends, what is left in the buffer without a line feed
\* is discarded: a last data line without its terminator produces no frame
\* (and a `done` in it does not count as received), and at every point at
\* most one frame was produced for each terminated data line.
ResidualBufferDiscarded ==
    wire \in EofStreams
        => /\ Len(decoder.out) <= TerminatedDataLines(wire, pos)
           /\ decoder.ended => /\ decoder.out = EofFrames(wire)
                               /\ decoder.done <=> wire = TerminatedDone

\* The stream with the unterminated done frame has ended: its data line is
\* still in the buffer and only the plan frame was produced.
EndedWithResidualLine ==
    /\ wire = UnterminatedDone
    /\ decoder.ended
    /\ decoder.buf = DataMarker \o JsonEmpty
    /\ Len(decoder.out) = 1
    /\ ~decoder.done

\* C39: while there is no current session no step opens a stream, supersedes
\* a request or registers a new active request, and the rejected sendMessage
\* itself changes neither activeRequest nor any request and emits no event.
NoSessionSendOpensNothing ==
    [][/\ currentSession = NoSession
            => /\ nReq' = nReq
               /\ activeRequest' \in {activeRequest, NoRequest}
               /\ \A s \in Streams :
                     /\ req'[s].st = "sent" => req[s].st = "sent"
                     /\ req'[s].cancel = "supersede" => req[s].cancel = "supersede"
       /\ SendMessageNoSession
            => UNCHANGED <<activeRequest, nReq, req, wait, toWebview>>]_vars

\* After a session was used and dropped, with room for another stream, a
\* send is attempted without a session.
SendAttemptedWithoutSession ==
    /\ currentSession = NoSession
    /\ ENABLED SendMessageNoSession
    /\ nReq > 0
    /\ nReq < MaxStreams

====
